---- MODULE Spec2Model ----
(***************************************************************************)
(* swr-catalyst: the mutation hooks useSWRCreate / useSWRUpdate /          *)
(* useSWRDelete over the SWR cache.  One hook instance is modelled; each   *)
(* call of its trigger is an async function whose awaits are the points    *)
(* at which other triggers, an unmount or another cache writer may run.    *)
(***************************************************************************)
EXTENDS Integers, Sequences, FiniteSets, TLC

\* Number of trigger calls made on the hook instance.
MaxTriggers == 2
\* Number of cache mutate calls whose promise rejects.
MaxCacheFailures == 1

VARIABLES
  operation,        \* "create" | "update" | "delete": which hook this is
  optimisticUpdate, \* options.optimisticUpdate is configured
  rollbackOption,   \* options.rollbackOnError: "unset" | "true" | "false"
  stableKey,        \* useStableKey(key): a structured key or Null
  isMountedRef,     \* isMountedRef.current
  isMutating,       \* useState(false)
  error,            \* useState(null)
  cache,            \* the SWR cache: key -> data
  pc,               \* per trigger call: where the async function is suspended
  args,             \* per trigger call: the arguments it was called with
  originalData,     \* per trigger call: the local `originalData`
  pending,          \* per trigger call: outcome of the cache call it awaits
  held,             \* per trigger call: remote result / caught error it holds
  result,           \* per trigger call: how the returned promise settled
  log,              \* per trigger call: cache reads, mutate calls, remote calls
  before,           \* per trigger call: the key's cache value when it started
  touched,          \* per trigger call: another call wrote the key since it started
  alone,            \* per trigger call: no other call was in flight when it started
  lastFailed,       \* the call that last rejected with a MutationError while mounted
  started,          \* number of trigger calls made so far
  cacheFailures     \* number of cache mutate calls that rejected so far

vars == <<operation, optimisticUpdate, rollbackOption, stableKey, isMountedRef,
          isMutating, error, cache, pc, args, originalData, pending, held,
          result, log, before, touched, alone, lastFailed, started,
          cacheFailures>>

Calls == 1..MaxTriggers

-----------------------------------------------------------------------------
\* Values

Undefined == [t |-> "undefined"]
Null == [t |-> "null"]

Ids == {1, 2}
Titles == {"a", "b"}
Item(i, s) == [id |-> i, title |-> s]

\* A cached list of items.
List(s) == [t |-> "list", items |-> s]

\* `current || []`
ItemsOf(v) == IF v = Undefined THEN <<>> ELSE v.items

Key1 == [id |-> "todos", group |-> Undefined, data |-> "/api/todos"]
CacheKeys == {Key1}

\* What the remote function resolves with, and what it rejects with.
RemoteResults == {[t |-> "result", v |-> "r1"]}
RemoteCauses == {[name |-> "Error", message |-> "Failed"]}
\* What a rejecting cache mutate call rejects with.
CacheFailure == [name |-> "Error", message |-> "cache"]

InitialCacheValues == {Undefined, List(<<Item(1, "a"), Item(2, "a")>>)}

\* The arguments a caller hands to trigger, by hook: create(data),
\* update(id, data), delete(id).
AllTriggerArgs(op) ==
  CASE op = "create" -> {[data |-> [title |-> s]] : s \in Titles}
    [] op = "update" -> {[id |-> i, data |-> [title |-> "b"]] : i \in Ids}
    [] op = "delete" -> {[id |-> i] : i \in Ids}

\* Successive calls alternate between the two items (or titles): the first
\* call names item 1, the second item 2, a third item 1 again, so calls on
\* the same item and on different items both overlap.
FirstTriggerArgs(op) ==
  CASE op = "create" -> {[data |-> [title |-> "a"]]}
    [] op = "update" -> {[id |-> 1, data |-> [title |-> "b"]]}
    [] op = "delete" -> {[id |-> 1]}

TriggerArgs(op, t) ==
  IF t % 2 = 1 THEN FirstTriggerArgs(op)
               ELSE AllTriggerArgs(op) \ FirstTriggerArgs(op)

-----------------------------------------------------------------------------
\* Pure helpers

\* `shouldRevalidate === false`
FalseFlag == [t |-> "boolean", b |-> FALSE]

\* swrGetCache(cache, key): undefined for a null key, else the cache entry.
swrGetCache(c, key) ==
  IF key = Null THEN Undefined ELSE [data |-> c[key]]

\* `entry?.data`
DataOf(entry) == IF entry = Undefined THEN Undefined ELSE entry.data

\* swrMutate(mutate, key, data, shouldRevalidate): the call handed to mutate.
swrMutate(key, data, shouldRevalidate) ==
  [ev |-> "mutate", key |-> key, data |-> data, revalidate |-> shouldRevalidate]

\* A mutate call that carries no data and does not suppress revalidation.
IsRevalidation(call) ==
  call.ev = "mutate" /\ call.data = Undefined /\ call.revalidate # FalseFlag

\* A mutate call that writes its data into the key's entry.
IsWrite(call) ==
  call.ev = "mutate" /\ call.key # Null /\ call.revalidate = FalseFlag

\* The effect of a resolving mutate call on the cache: with revalidation
\* suppressed the data is written; a revalidation leaves the entry to the
\* refetch the cache library runs on its own.
MutateEffect(c, call) ==
  IF IsWrite(call) THEN [c EXCEPT ![call.key] = call.data] ELSE c

\* The optimistic transforms the hooks are exercised with.
OptimisticCreate(current, newData) ==
  List(Append(ItemsOf(current), newData))

OptimisticUpdateItem(current, p) ==
  List([i \in DOMAIN ItemsOf(current) |->
          IF ItemsOf(current)[i].id = p.id
            THEN [ItemsOf(current)[i] EXCEPT !.title = p.data.title]
            ELSE ItemsOf(current)[i]])

OptimisticDelete(current, id) ==
  List(SelectSeq(ItemsOf(current), LAMBDA it : it.id # id))

\* The payload handed to the optimistic transform: `data`, `{ id, data }`, `id`.
Payload(op, a) ==
  CASE op = "create" -> a.data
    [] op = "update" -> [id |-> a.id, data |-> a.data]
    [] op = "delete" -> a.id

optimisticUpdateFn(op, current, payload) ==
  CASE op = "create" -> OptimisticCreate(current, payload)
    [] op = "update" -> OptimisticUpdateItem(current, payload)
    [] op = "delete" -> OptimisticDelete(current, payload)

\* (mutant) applyOptimisticUpdate returns the value it wrote.
applyOptimisticUpdateReturningNew(c, key, op, a) ==
  LET orig == DataOf(swrGetCache(c, key))
      optimisticData == optimisticUpdateFn(op, orig, Payload(op, a))
  IN [originalData |-> optimisticData,
      call |-> swrMutate(key, optimisticData, FalseFlag)]

\* applyOptimisticUpdate up to its await: the value read and the call issued.
applyOptimisticUpdate(c, key, op, a) ==
  LET orig == DataOf(swrGetCache(c, key))
      optimisticData == optimisticUpdateFn(op, orig, Payload(op, a))
  IN [originalData |-> orig,
      call |-> swrMutate(key, optimisticData, FalseFlag)]

\* (mutant) the rollback is fenced: it writes back what the entry holds now.
rollbackFenced(key, orig) ==
  swrMutate(key, DataOf(swrGetCache(cache, key)), FalseFlag)


\* (mutant) an undefined snapshot is replaced by an empty list.
rollbackDefaultingToEmpty(key, orig) ==
  swrMutate(key, IF orig = Undefined THEN List(<<>>) ELSE orig, FalseFlag)

\* (mutant) the rollback asks for a refetch instead of writing the snapshot.
rollbackByRevalidation(key, orig) == swrMutate(key, Undefined, Undefined)

\* rollbackOptimisticUpdate: the call issued.
rollbackOptimisticUpdate(key, orig) == swrMutate(key, orig, FalseFlag)

\* (mutant) the option is ignored: the default is always taken.
rollbackOnErrorIgnored == TRUE

\* `const { optimisticUpdate, rollbackOnError = true } = options`
rollbackOnError == IF rollbackOption = "unset" THEN TRUE ELSE rollbackOption = "true"

\* (mutant) the catch block never rolls back.
NeverRollback == FALSE

\* `rollbackOnError && optimisticUpdate`
ShouldRollback == rollbackOnError /\ optimisticUpdate

\* (mutant) the update hook leaves the id out of the context.
AdditionalContextWithoutId(op, a) ==
  CASE op = "create" -> [data |-> a.data]
    [] op = "update" -> [data |-> a.data]
    [] op = "delete" -> [id |-> a.id]

\* The additionalContext each hook hands to createMutationError.
AdditionalContext(op, a) ==
  CASE op = "create" -> [data |-> a.data]
    [] op = "update" -> [data |-> a.data, id |-> a.id]
    [] op = "delete" -> [id |-> a.id]

\* createMutationError(operation, stableKey, err, additionalContext); `ref`
\* stands for the identity of the object `new MutationError` allocates.
createMutationError(op, key, err, additionalContext, ref) ==
  [name |-> "MutationError",
   context |-> additionalContext @@ [operation |-> op, key |-> key],
   originalError |-> err,
   ref |-> ref]

Resolved(v) == [settled |-> "resolved", value |-> v]
Rejected(e) == [settled |-> "rejected", value |-> e]
Unsettled == [settled |-> "no", value |-> Undefined]


-----------------------------------------------------------------------------
\* State

config == <<operation, optimisticUpdate, rollbackOption, stableKey>>

Awaiting == {"awaitOptimistic", "awaitRemote", "awaitRevalidate", "awaitRollback"}
InFlight(t) == pc[t] \in Awaiting
Settled(t) == pc[t] \in {"resolved", "rejected"}

\* The cache value of the hook's stable key.
CacheValue(c, key) == DataOf(swrGetCache(c, key))

Init ==
  /\ operation \in {"create", "update", "delete"}
  /\ optimisticUpdate \in BOOLEAN
  /\ rollbackOption \in {"unset", "true", "false"}
  \* rollbackOnError is read only in `rollbackOnError && optimisticUpdate`
  /\ (~optimisticUpdate => rollbackOption = "unset")
  /\ stableKey \in {Null, Key1}
  /\ isMountedRef = TRUE
  /\ isMutating = FALSE
  /\ error = Null
  /\ cache \in [CacheKeys -> InitialCacheValues]
  /\ (stableKey = Null => \A k \in CacheKeys : cache[k] = Undefined)
  /\ pc = [t \in Calls |-> "idle"]
  /\ args = [t \in Calls |-> Undefined]
  /\ originalData = [t \in Calls |-> Undefined]
  /\ pending = [t \in Calls |-> TRUE]
  /\ held = [t \in Calls |-> Undefined]
  /\ result = [t \in Calls |-> Unsettled]
  /\ log = [t \in Calls |-> <<>>]
  /\ before = [t \in Calls |-> Undefined]
  /\ touched = [t \in Calls |-> FALSE]
  /\ alone = [t \in Calls |-> FALSE]
  /\ lastFailed = 0
  /\ started = 0
  /\ cacheFailures = 0

-----------------------------------------------------------------------------
\* Building blocks of the trigger's async function.  log[t] is the trace of
\* what call t did, in order: state updates, cache reads, mutate calls and
\* the settling of their promises, the remote call and its settling.

SetIsMutating(v) == [ev |-> "setIsMutating", value |-> v]
SetError(e) == [ev |-> "setError", value |-> e]
CacheRead(key) == [ev |-> "read", key |-> key]
MutateSettled(ok) == [ev |-> "mutateSettled", ok |-> ok]
RemoteCall(a) == [ev |-> "remote", args |-> a]
RemoteSettled(how, v) == [ev |-> "remoteSettled", how |-> how, value |-> v]

\* The cache reads swrGetCache makes: none for a null key.
ReadsOf(key) == IF key = Null THEN <<>> ELSE <<CacheRead(key)>>

\* Call t issues `call` on the cache and suspends on the returned promise;
\* ok says whether that promise will resolve.  A rejecting call writes nothing.
Issue(t, call, ok, where, keep, sofar) ==
  /\ (~ok => cacheFailures < MaxCacheFailures)
  /\ cacheFailures' = IF ok THEN cacheFailures ELSE cacheFailures + 1
  /\ cache' = IF ok THEN MutateEffect(cache, call) ELSE cache
  /\ pending' = [pending EXCEPT ![t] = ok]
  /\ held' = [held EXCEPT ![t] = keep]
  /\ pc' = [pc EXCEPT ![t] = where]
  /\ log' = [log EXCEPT ![t] = Append(sofar, call)]
  /\ touched' = [u \in Calls |->
                   touched[u] \/ (u # t /\ pc[u] # "idle" /\ ok /\ IsWrite(call))]

\* (mutant) the finally block clears the flag without asking isMountedRef.
FinallyUnguarded(mutating) == FALSE

\* `finally { if (isMountedRef.current) setIsMutating(false) }`
Finally(mutating) == IF isMountedRef THEN FALSE ELSE mutating

\* The async function leaves through its finally block and settles with res.
Settle(t, res, sofar) ==
  /\ pc' = [pc EXCEPT ![t] = res.settled]
  /\ result' = [result EXCEPT ![t] = res]
  /\ isMutating' = Finally(isMutating)
  /\ log' = [log EXCEPT ![t] =
               IF isMountedRef THEN Append(sofar, SetIsMutating(FALSE)) ELSE sofar]

\* (mutant) the raw cause is published instead of the MutationError.
PublishedCause(mutationError) ==
  IF isMountedRef THEN mutationError.originalError ELSE error

\* `if (isMountedRef.current) setError(mutationError)`
PublishedError(mutationError) == IF isMountedRef THEN mutationError ELSE error

\* The tail of the catch block: build the MutationError, publish it when
\* mounted, throw it.
Throw(t, err, sofar) ==
  LET mutationError ==
        createMutationError(operation, stableKey, err,
                            AdditionalContext(operation, args[t]), t)
  IN /\ error' = PublishedError(mutationError)
     /\ lastFailed' = IF isMountedRef THEN t ELSE lastFailed
     /\ Settle(t, Rejected(mutationError),
               IF isMountedRef THEN Append(sofar, SetError(mutationError))
                               ELSE sofar)
     /\ UNCHANGED <<cache, pending, held, touched, cacheFailures>>

\* `catch (err) { ... }`
Catch(t, err, sofar) ==
  IF ShouldRollback
    THEN \E ok \in BOOLEAN :
           /\ Issue(t, rollbackOptimisticUpdate(stableKey, originalData[t]),
                    ok, "awaitRollback", err, sofar)
           /\ UNCHANGED <<result, isMutating, error, lastFailed>>
    ELSE Throw(t, err, sofar)

\* The remote function is invoked and awaited.
InvokeRemote(t, a, sofar) ==
  /\ pc' = [pc EXCEPT ![t] = "awaitRemote"]
  /\ log' = [log EXCEPT ![t] = Append(sofar, RemoteCall(a))]

\* (mutant) the guard is missing.
NoMountedGuard == TRUE

\* `if (!isMountedRef.current) return;`
MountedGuard == isMountedRef

\* (mutant) the previous error is not cleared.
KeptError == error

\* `setError(null)`
ClearedError == Null

\* (mutant) the optimistic write is issued but not awaited: the remote
\* function is invoked in the same turn.
StartMutationNoAwait(t, a, sofar) ==
  IF optimisticUpdate
    THEN LET ap == applyOptimisticUpdate(cache, stableKey, operation, a)
         IN /\ cache' = MutateEffect(cache, ap.call)
            /\ originalData' = [originalData EXCEPT ![t] = ap.originalData]
            /\ InvokeRemote(t, a, (sofar \o ReadsOf(stableKey)) \o <<ap.call>>)
            /\ UNCHANGED <<pending, held, touched, cacheFailures>>
    ELSE /\ InvokeRemote(t, a, sofar)
         /\ UNCHANGED <<cache, originalData, pending, held, touched,
                        cacheFailures>>

\* `if (optimisticUpdate) originalData = await applyOptimisticUpdate(...)`,
\* else straight to `await remote(args)`: the synchronous part up to the
\* first await.
StartMutation(t, a, sofar) ==
  IF optimisticUpdate
    THEN \E ok \in BOOLEAN :
           LET ap == applyOptimisticUpdate(cache, stableKey, operation, a)
           IN /\ Issue(t, ap.call, ok, "awaitOptimistic", Undefined,
                       sofar \o ReadsOf(stableKey))
              /\ originalData' = [originalData EXCEPT ![t] = ap.originalData]
    ELSE /\ InvokeRemote(t, a, sofar)
         /\ UNCHANGED <<cache, originalData, pending, held, touched,
                        cacheFailures>>

-----------------------------------------------------------------------------
\* Actions

\* trigger(args) is called: the guard and the synchronous part of the body.
Trigger(t, a) ==
  /\ pc[t] = "idle"
  /\ t = started + 1
  /\ a \in TriggerArgs(operation, t)
  /\ started' = t
  /\ args' = [args EXCEPT ![t] = a]
  /\ UNCHANGED <<config, isMountedRef, lastFailed>>
  /\ IF ~MountedGuard
       THEN /\ pc' = [pc EXCEPT ![t] = "resolved"]
            /\ result' = [result EXCEPT ![t] = Resolved(Undefined)]
            /\ UNCHANGED <<isMutating, error, cache, originalData, pending,
                           held, log, before, touched, alone, cacheFailures>>
       ELSE /\ isMutating' = TRUE
            /\ error' = ClearedError
            /\ before' = [before EXCEPT ![t] = CacheValue(cache, stableKey)]
            /\ alone' = [alone EXCEPT ![t] = \A u \in Calls : ~InFlight(u)]
            /\ StartMutation(t, a, <<SetIsMutating(TRUE), SetError(ClearedError)>>)
            /\ UNCHANGED result

\* The optimistic write's promise settled.  The await stands before the try
\* block: a rejection leaves the function at once, through no catch or finally.
OptimisticSettled(t) ==
  /\ pc[t] = "awaitOptimistic"
  /\ IF pending[t]
       THEN /\ InvokeRemote(t, args[t], Append(log[t], MutateSettled(TRUE)))
            /\ UNCHANGED result
       ELSE /\ pc' = [pc EXCEPT ![t] = "rejected"]
            /\ result' = [result EXCEPT ![t] = Rejected(CacheFailure)]
            /\ log' = [log EXCEPT ![t] = Append(@, MutateSettled(FALSE))]
  /\ UNCHANGED <<config, isMountedRef, isMutating, error, cache, args,
                 originalData, pending, held, before, touched, alone,
                 lastFailed, started, cacheFailures>>

\* The remote function resolved with r.
RemoteResolves(t, r) ==
  /\ pc[t] = "awaitRemote"
  /\ r \in RemoteResults
  /\ IF ~isMountedRef
       THEN /\ Settle(t, Resolved(r), Append(log[t], RemoteSettled("resolved", r)))
            /\ UNCHANGED <<cache, pending, held, touched, cacheFailures>>
       ELSE \E ok \in BOOLEAN :
              /\ Issue(t, swrMutate(stableKey, Undefined, Undefined), ok,
                       "awaitRevalidate", r,
                       Append(log[t], RemoteSettled("resolved", r)))
              /\ UNCHANGED <<result, isMutating>>
  /\ UNCHANGED <<config, isMountedRef, error, args, originalData, before,
                 alone, lastFailed, started>>

\* The remote function rejected with c.
RemoteRejects(t, c) ==
  /\ pc[t] = "awaitRemote"
  /\ c \in RemoteCauses
  /\ Catch(t, c, Append(log[t], RemoteSettled("rejected", c)))
  /\ UNCHANGED <<config, isMountedRef, args, originalData, before, alone,
                 started>>

\* The revalidation's promise settled; the await stands inside the try block.
RevalidateSettled(t) ==
  /\ pc[t] = "awaitRevalidate"
  /\ IF pending[t]
       THEN /\ Settle(t, Resolved(held[t]), Append(log[t], MutateSettled(TRUE)))
            /\ UNCHANGED <<error, lastFailed, cache, pending, held, touched,
                           cacheFailures>>
       ELSE Catch(t, CacheFailure, Append(log[t], MutateSettled(FALSE)))
  /\ UNCHANGED <<config, isMountedRef, args, originalData, before, alone,
                 started>>

\* The rollback write's promise settled; the await stands inside the catch
\* block, so a rejection skips the rest of it and leaves through finally.
RollbackSettled(t) ==
  /\ pc[t] = "awaitRollback"
  /\ IF pending[t]
       THEN Throw(t, held[t], Append(log[t], MutateSettled(TRUE)))
       ELSE /\ Settle(t, Rejected(CacheFailure),
                      Append(log[t], MutateSettled(FALSE)))
            /\ UNCHANGED <<error, lastFailed, cache, pending, held, touched,
                           cacheFailures>>
  /\ UNCHANGED <<config, isMountedRef, args, originalData, before, alone,
                 started>>

\* The effect cleanup: the component unmounts.
Unmount ==
  /\ isMountedRef
  /\ isMountedRef' = FALSE
  /\ UNCHANGED <<config, isMutating, error, cache, pc, args, originalData,
                 pending, held, result, log, before, touched, alone,
                 lastFailed, started, cacheFailures>>

Next ==
  \/ \E t \in Calls, a \in AllTriggerArgs(operation) : Trigger(t, a)
  \/ \E t \in Calls : OptimisticSettled(t)
  \/ \E t \in Calls : \E r \in RemoteResults : RemoteResolves(t, r)
  \/ \E t \in Calls : \E c \in RemoteCauses : RemoteRejects(t, c)
  \/ \E t \in Calls : RevalidateSettled(t)
  \/ \E t \in Calls : RollbackSettled(t)
  \/ Unmount

Spec == Init /\ [][Next]_vars


-----------------------------------------------------------------------------
\* Reading a call's trace

\* Call t passed the unmount guard: it then made a state update at once.
Passed(t) == log[t] # <<>>

\* The cache mutate calls call t made, in order.
MutateCalls(t) == SelectSeq(log[t], LAMBDA e : e.ev = "mutate")

RemoteRejectedWith(t, c) ==
  \E i \in DOMAIN log[t] : log[t][i] = RemoteSettled("rejected", c)

RemoteResolvedWith(t, r) ==
  \E i \in DOMAIN log[t] : log[t][i] = RemoteSettled("resolved", r)

RemoteRejected(t) == \E c \in RemoteCauses : RemoteRejectedWith(t, c)

\* None of call t's cache mutate calls rejected.
NoCacheCallFailed(t) ==
  \A i \in DOMAIN log[t] : log[t][i] # MutateSettled(FALSE)

\* The optimistic write call t is to make, from the value cached when it started.
OptimisticWrite(t) ==
  swrMutate(stableKey,
            optimisticUpdateFn(operation, before[t], Payload(operation, args[t])),
            FalseFlag)

\* The revalidation of the stable key: a mutate call carrying no data.
Revalidation == swrMutate(stableKey, Undefined, Undefined)

IsMutationError(e) == e.name = "MutationError"

\* No call later than t has been made.
Latest(t) == \A u \in Calls : u > t => pc[u] = "idle"

-----------------------------------------------------------------------------
\* Claims about the hooks' trigger

C2_RejectsWithMutationError ==
  \A t \in Calls : \A c \in RemoteCauses :
    (RemoteRejectedWith(t, c) /\ Settled(t))
    => /\ result[t].settled = "rejected"
       /\ IsMutationError(result[t].value)
       /\ result[t].value.originalError = c
       /\ result[t].value.context.operation = operation

\* C3: with an optimistic update configured, whenever the remote function is
\* invoked the trigger has already issued the write of the transformed value
\* to the stable key, without revalidation, and that write has completed.
C3_OptimisticWriteBeforeRemote ==
  \A t \in Calls :
    optimisticUpdate =>
      \A j \in DOMAIN log[t] :
        log[t][j].ev = "remote" =>
          \E i \in 1..(j - 2) :
            /\ log[t][i] = OptimisticWrite(t)
            /\ log[t][i + 1] = MutateSettled(TRUE)

\* C3 witness: the remote function has been invoked by a trigger of a hook
\* with an optimistic update, on a key that holds a list.
C3_Witness ==
  \E t \in Calls :
    /\ optimisticUpdate
    /\ stableKey # Null
    /\ before[t] # Undefined
    /\ pc[t] = "awaitRemote"
    /\ \E j \in DOMAIN log[t] : log[t][j].ev = "remote"
    /\ CacheValue(cache, stableKey) = OptimisticWrite(t).data

\* C4: a revalidation of the stable key is issued by a trigger only after
\* that trigger's remote call has resolved; none is issued while the remote
\* call is pending or after it rejected.
C4_RevalidationOnlyAfterSuccess ==
  \A t \in Calls :
    \A i \in DOMAIN log[t] :
      IsRevalidation(log[t][i]) =>
        /\ log[t][i].key = stableKey
        /\ \E j \in 1..(i - 1) : \E r \in RemoteResults :
             log[t][j] = RemoteSettled("resolved", r)
        /\ ~RemoteRejected(t)

\* C4 witness: a trigger has issued its revalidation.
C4_Witness ==
  \E t \in Calls :
    /\ pc[t] = "awaitRevalidate"
    /\ \E i \in DOMAIN log[t] : log[t][i] = Revalidation

\* C5 (as stated): a mounted trigger whose remote call resolved with r resolves
\* with r, having made exactly the optimistic write (when configured) and
\* then one revalidation of the stable key.
C5_ResolvesWithExactCalls ==
  \A t \in Calls : \A r \in RemoteResults :
    (RemoteResolvedWith(t, r) /\ Settled(t) /\ isMountedRef)
    => /\ result[t] = Resolved(r)
       /\ MutateCalls(t) = IF optimisticUpdate
                             THEN <<OptimisticWrite(t), Revalidation>>
                             ELSE <<Revalidation>>

\* C6 (as stated): every trigger call that started while the component was
\* mounted and has settled, resolved or rejected, with the component still
\* mounted, has set isMutating to false.
C6_SettledCallClearedIsMutating ==
  \A t \in Calls :
    (Passed(t) /\ Settled(t) /\ isMountedRef)
    => \E i \in DOMAIN log[t] : log[t][i] = SetIsMutating(FALSE)

\* C7 (as stated): while the component is mounted and some trigger call of the
\* hook is in flight, isMutating is true.
C7_MutatingWhileInFlight ==
  (isMountedRef /\ \E t \in Calls : InFlight(t)) => isMutating

\* C8 (as stated): when the most recently started trigger has rejected with a
\* MutationError after its remote call rejected, and the component is
\* mounted, the hook's error is that very MutationError.
C8_ErrorIsLatestRejectionAsStated ==
  \A t \in Calls :
    (/\ RemoteRejected(t)
     /\ pc[t] = "rejected"
     /\ IsMutationError(result[t].value)
     /\ isMountedRef
     /\ Latest(t))
    => error = result[t].value

\* C8 (amended): as above, provided no other trigger call has rejected with a
\* MutationError after this one did.
C8_ErrorIsLatestRejection ==
  \A t \in Calls :
    (/\ RemoteRejected(t)
     /\ pc[t] = "rejected"
     /\ IsMutationError(result[t].value)
     /\ isMountedRef
     /\ Latest(t)
     /\ lastFailed = t)
    => error = result[t].value

\* C8 witness: the second trigger, started after the first had failed, has
\* rejected with its own MutationError, which the hook now publishes.
C8_Witness ==
  \E t \in Calls :
    /\ t > 1
    /\ pc[t - 1] = "rejected"
    /\ RemoteRejected(t)
    /\ pc[t] = "rejected"
    /\ IsMutationError(result[t].value)
    /\ isMountedRef
    /\ Latest(t)
    /\ lastFailed = t
    /\ error = result[t].value
    /\ error # result[t - 1].value

\* C9: a trigger that passes the unmount guard sets error to null before it
\* invokes the remote function; so once a trigger that started with no other
\* call in flight has resolved, and no later call was made, error is null.
C9_ErrorClearedOnStart ==
  \A t \in Calls :
    /\ Passed(t) =>
         /\ Len(log[t]) >= 2
         /\ log[t][2] = SetError(Null)
         /\ \A j \in DOMAIN log[t] : log[t][j].ev = "remote" => j > 2
    /\ (Passed(t) /\ alone[t] /\ pc[t] = "resolved" /\ Latest(t))
         => error = Null

\* C9 witness: a trigger failed and published its error; the next trigger,
\* started afterwards, resolved, and error is null.
C9_Witness ==
  \E t \in Calls :
    /\ t > 1
    /\ pc[t - 1] = "rejected"
    /\ \E i \in DOMAIN log[t - 1] :
         log[t - 1][i] = SetError(result[t - 1].value)
    /\ Passed(t)
    /\ alone[t]
    /\ pc[t] = "resolved"
    /\ error = Null

\* C10: a trigger called after the component unmounted resolves with
\* undefined at once; it makes no remote call and no cache call, and leaves
\* isMutating, error and the cache as they were.
C10_UnmountedTriggerIsNoOp ==
  [][\A t \in Calls :
       (pc[t] = "idle" /\ pc'[t] # "idle" /\ ~isMountedRef)
       => /\ pc'[t] = "resolved"
          /\ result'[t] = Resolved(Undefined)
          /\ log'[t] = <<>>
          /\ cache' = cache
          /\ isMutating' = isMutating
          /\ error' = error]_vars

\* C10 witness: a trigger called after unmount has resolved with undefined
\* while an earlier call was still in flight.
C10_Witness ==
  \E t \in Calls :
    /\ ~isMountedRef
    /\ pc[t] = "resolved"
    /\ ~Passed(t)
    /\ result[t] = Resolved(Undefined)
    /\ \E u \in Calls : InFlight(u)

\* C11: once the component has unmounted, no step of any trigger call changes
\* isMutating or error, whether its remote call resolves or rejects.
C11_NoStateUpdateAfterUnmount ==
  [][~isMountedRef => (isMutating' = isMutating /\ error' = error)]_vars

\* C11 witness: a call rejected with a MutationError after the component
\* unmounted; it neither published the error nor cleared isMutating.
C11_Witness ==
  \E t \in Calls :
    /\ ~isMountedRef
    /\ pc[t] = "rejected"
    /\ IsMutationError(result[t].value)
    /\ \A i \in DOMAIN log[t] :
         /\ log[t][i] # SetError(result[t].value)
         /\ log[t][i] # SetIsMutating(FALSE)
    /\ isMutating
    /\ error # result[t].value

\* C12 (as stated): whenever a trigger's remote call has resolved, the
\* trigger has issued the revalidation of the stable key, whether or not the
\* component unmounted while the remote call was in flight.
C12_RevalidatesAfterUnmountAsStated ==
  \A t \in Calls : \A r \in RemoteResults :
    RemoteResolvedWith(t, r) =>
      \E i \in DOMAIN log[t] : log[t][i] = Revalidation

\* C13 (as stated): with an optimistic update configured and rollbackOnError
\* false, a trigger whose remote call rejected has made the optimistic write
\* as its only cache mutate call, and once it has rejected the cache entry
\* of its (non-null) stable key holds the optimistic value.
C13_NoRollbackWhenDisabledAsStated ==
  \A t \in Calls :
    (/\ optimisticUpdate
     /\ rollbackOption = "false"
     /\ RemoteRejected(t)
     /\ Settled(t))
    => /\ pc[t] = "rejected"
       /\ MutateCalls(t) = <<OptimisticWrite(t)>>
       /\ stableKey # Null
            => CacheValue(cache, stableKey) = OptimisticWrite(t).data

\* C13 (amended): as above; the cache entry holds the optimistic value
\* provided no other party wrote the key since the trigger started.
C13_NoRollbackWhenDisabled ==
  \A t \in Calls :
    (/\ optimisticUpdate
     /\ rollbackOption = "false"
     /\ RemoteRejected(t)
     /\ Settled(t))
    => /\ pc[t] = "rejected"
       /\ MutateCalls(t) = <<OptimisticWrite(t)>>
       /\ (stableKey # Null /\ ~touched[t])
            => CacheValue(cache, stableKey) = OptimisticWrite(t).data

\* C13 witness: a trigger with rollback disabled has rejected after its
\* remote call failed; the optimistic value, which differs from the earlier
\* one, is still cached.
C13_Witness ==
  \E t \in Calls :
    /\ optimisticUpdate
    /\ rollbackOption = "false"
    /\ stableKey # Null
    /\ RemoteRejected(t)
    /\ pc[t] = "rejected"
    /\ ~touched[t]
    /\ MutateCalls(t) = <<OptimisticWrite(t)>>
    /\ OptimisticWrite(t).data # before[t]
    /\ CacheValue(cache, stableKey) = OptimisticWrite(t).data

\* C14: the MutationError a trigger rejects with carries in its context the
\* hook's operation kind, the stable key and the arguments of that very
\* call: data for create, id and data for update, id for delete.
C14_ErrorContextOfTheCall ==
  \A t \in Calls :
    (pc[t] = "rejected" /\ IsMutationError(result[t].value))
    => result[t].value.context =
         CASE operation = "create" ->
                [operation |-> "create", key |-> stableKey,
                 data |-> args[t].data]
           [] operation = "update" ->
                [operation |-> "update", key |-> stableKey,
                 id |-> args[t].id, data |-> args[t].data]
           [] operation = "delete" ->
                [operation |-> "delete", key |-> stableKey, id |-> args[t].id]

\* C14 witness: an update call rejected with a MutationError naming its own
\* id while another call, made for another id, was under way.
C14_Witness ==
  \E t \in Calls : \E u \in Calls :
    /\ operation = "update"
    /\ pc[t] = "rejected"
    /\ IsMutationError(result[t].value)
    /\ result[t].value.context.id = args[t].id
    /\ InFlight(u)
    /\ args[u].id # args[t].id

\* C15 (as stated): every rejection a caller of trigger observes is a
\* MutationError, whichever step failed.
C15_OnlyMutationErrorsSurface ==
  \A t \in Calls : pc[t] = "rejected" => IsMutationError(result[t].value)

\* C16: the hooks impose no fencing between overlapping triggers: a rollback
\* write that resolves puts the call's own snapshot into the entry whatever
\* other calls are in flight; so with two overlapping optimistic triggers A
\* and B, A's rollback can remove B's optimistic value before B's remote
\* call settles (C16_Witness).
C16_RollbackIsUnfenced ==
  [][\A t \in Calls :
       (/\ pc[t] \in {"awaitRemote", "awaitRevalidate"}
        /\ pc'[t] = "awaitRollback"
        /\ pending'[t]
        /\ stableKey # Null)
       => CacheValue(cache', stableKey) = originalData[t]]_vars

\* C16 witness: B started on top of A's optimistic value and is waiting for
\* its remote call; A's remote call failed and A's rollback write has put
\* A's snapshot back: B's optimistic value is gone from the cache.
C16_Witness ==
  \E A \in Calls : \E B \in Calls :
    /\ A # B
    /\ optimisticUpdate
    /\ stableKey # Null
    /\ RemoteRejected(A)
    /\ pc[A] = "awaitRollback"
    /\ pending[A]
    /\ pc[B] = "awaitRemote"
    /\ before[B] = OptimisticWrite(A).data
    /\ CacheValue(cache, stableKey) = originalData[A]
    /\ CacheValue(cache, stableKey) # OptimisticWrite(B).data

\* C17: applyOptimisticUpdate reads the key's cached value p (undefined for a
\* null key or an absent entry), issues the write of transform(p, payload)
\* with revalidation false as the call's first cache call, and returns p;
\* the payload is data for create, {id, data} for update, id for delete.
C17_ApplyOptimisticUpdate ==
  \A t \in Calls :
    (optimisticUpdate /\ Passed(t)) =>
      LET p == before[t]
          payload ==
            CASE operation = "create" -> args[t].data
              [] operation = "update" -> [id |-> args[t].id,
                                          data |-> args[t].data]
              [] operation = "delete" -> args[t].id
          reads == SelectSeq(log[t], LAMBDA e : e.ev = "read")
      IN /\ stableKey = Null => (p = Undefined /\ reads = <<>>)
         /\ stableKey # Null => reads = <<CacheRead(stableKey)>>
         /\ MutateCalls(t)[1] =
              [ev |-> "mutate", key |-> stableKey,
               data |-> optimisticUpdateFn(operation, p, payload),
               revalidate |-> FalseFlag]
         /\ pc[t] = "awaitRemote" => originalData[t] = p

\* C17 witness: an update call on a cached list has its optimistic write in
\* the cache and holds the earlier list as its snapshot.
C17_Witness ==
  \E t \in Calls :
    /\ optimisticUpdate
    /\ operation = "update"
    /\ stableKey # Null
    /\ pc[t] = "awaitRemote"
    /\ before[t] # Undefined
    /\ originalData[t] = before[t]
    /\ CacheValue(cache, stableKey) # before[t]
    /\ CacheValue(cache, stableKey) = MutateCalls(t)[1].data

-----------------------------------------------------------------------------
\* JavaScript values of the key codec and the batch functions.  A string is
\* a sequence of characters; every value carries its type tag t.

Str(cs) == [t |-> "string", s |-> cs]
Num(n) == [t |-> "number", n |-> n]
Bool(b) == [t |-> "boolean", b |-> b]
Arr(items) == [t |-> "array", items |-> items]
\* An object: its identity (ref) and its own properties.
Obj(ref, fields) == [t |-> "object", ref |-> ref, fields |-> fields]

IsString(v) == v.t = "string"
IsObject(v) == v.t = "object"

\* ToBoolean(v)
Truthy(v) ==
  CASE v.t = "undefined" -> FALSE
    [] v.t = "null" -> FALSE
    [] v.t = "boolean" -> v.b
    [] v.t = "number" -> v.n # 0
    [] v.t = "string" -> v.s # <<>>
    [] OTHER -> TRUE

\* `"name" in v` for an object v
HasField(v, name) == name \in DOMAIN v.fields

\* `v?.name`: undefined for null/undefined v and for a missing property
Field(v, name) ==
  IF v.t \in {"undefined", "null"} THEN Undefined
  ELSE IF HasField(v, name) THEN v.fields[name] ELSE Undefined

\* `a ?? b`
Coalesce(a, b) == IF a.t \in {"undefined", "null"} THEN b ELSE a

\* Array.prototype.includes on a sequence of values
Includes(items, v) == \E i \in DOMAIN items : items[i] = v

DQuote == "\""
Backslash == "\\"
LineFeed == "\n"
CarriageReturn == "\r"

\* `.` in a pattern without the s flag: any character but a line terminator.
Dot(c) == c \notin {LineFeed, CarriageReturn}

\* str.startsWith(prefix)
StartsWith(cs, prefix) ==
  Len(cs) >= Len(prefix) /\ SubSeq(cs, 1, Len(prefix)) = prefix

\* The greedy scan of `(?:[^"\\]|\\.)*` from index i: the index at which it
\* stops.  Each step takes one character that is neither quote nor
\* backslash, or a backslash together with the character after it.
RECURSIVE QuotedBodyEnd(_, _)
QuotedBodyEnd(cs, i) ==
  IF i > Len(cs) THEN i
  ELSE IF cs[i] = DQuote THEN i
  ELSE IF cs[i] = Backslash
         THEN IF i + 1 <= Len(cs) /\ Dot(cs[i + 1])
                THEN QuotedBodyEnd(cs, i + 2) ELSE i
  ELSE QuotedBodyEnd(cs, i + 1)

\* The pattern  label"((?:[^"\\]|\\.)*)"  matches at index i of cs.
MatchesAt(cs, label, i) ==
  LET from == i + Len(label) + 1
  IN /\ i + Len(label) <= Len(cs)
     /\ SubSeq(cs, i, i + Len(label) - 1) = label
     /\ cs[i + Len(label)] = DQuote
     /\ QuotedBodyEnd(cs, from) <= Len(cs)
     /\ cs[QuotedBodyEnd(cs, from)] = DQuote

NoMatch == [t |-> "null"]

\* key.match(PATTERN): the capture group of the leftmost match, or null.
Match(cs, label) ==
  LET at == {i \in 1..Len(cs) : MatchesAt(cs, label, i)}
  IN IF at = {} THEN NoMatch
     ELSE LET i == CHOOSE j \in at : \A k \in at : j <= k
              from == i + Len(label) + 1
          IN Str(SubSeq(cs, from, QuotedBodyEnd(cs, from) - 1))

\* str.replace(/\\(.)/g, "$1")
RECURSIVE unescapeString(_)
unescapeString(cs) ==
  IF cs = <<>> THEN <<>>
  ELSE IF Head(cs) = Backslash /\ Len(cs) >= 2 /\ Dot(cs[2])
         THEN <<cs[2]>> \o unescapeString(SubSeq(cs, 3, Len(cs)))
  ELSE <<Head(cs)>> \o unescapeString(Tail(cs))

ID_PATTERN == <<"#", "i", "d", ":">>

\* A group pattern that looks for the data label.
GroupPatternReadingData == <<"d", "a", "t", "a", ":">>

GROUP_PATTERN == <<"g", "r", "o", "u", "p", ":">>
DATA_PATTERN == <<"d", "a", "t", "a", ":">>

\* A legacy decoder that gives up when the group or the data segment is
\* missing.
tryCurrentFormatStrict(cs) ==
  IF \/ ~StartsWith(cs, <<"#", "i", "d", ":">>)
     \/ Match(cs, <<"#", "i", "d", ":">>) = NoMatch
     \/ Match(cs, <<"g", "r", "o", "u", "p", ":">>) = NoMatch
     \/ Match(cs, <<"d", "a", "t", "a", ":">>) = NoMatch
    THEN Null
    ELSE Obj("parsed",
             [id |-> Str(unescapeString(Match(cs, <<"#", "i", "d", ":">>).s)),
              group |-> Str(unescapeString(
                          Match(cs, <<"g", "r", "o", "u", "p", ":">>).s)),
              data |-> Str(unescapeString(
                         Match(cs, <<"d", "a", "t", "a", ":">>).s))])

\* tryCurrentFormat(key), key a string's characters
tryCurrentFormat(cs) ==
  IF ~StartsWith(cs, <<"#", "i", "d", ":">>) THEN Null
  ELSE LET idMatch == Match(cs, ID_PATTERN)
           groupMatch == Match(cs, GROUP_PATTERN)
           dataMatch == Match(cs, DATA_PATTERN)
       IN IF idMatch = NoMatch THEN Null
          ELSE Obj("parsed",
                   [id |-> Str(unescapeString(idMatch.s)),
                    group |-> IF groupMatch # NoMatch
                                THEN Str(unescapeString(groupMatch.s))
                                ELSE Undefined,
                    data |-> IF dataMatch # NoMatch
                               THEN Str(unescapeString(dataMatch.s))
                               ELSE Undefined])

\* JSON.parse, on the texts the model's keys are drawn from: a flat object
\* whose member names and values are strings without escapes,
\* {"name":"value",...}.  Every other text is taken to throw or to parse to
\* a non-object, which tryJSONFormat treats alike.

\* The index of the quote that closes the string opened at index i, or 0
\* when index i opens no string without escapes.
RECURSIVE ScanString(_, _)
ScanString(cs, j) ==
  IF j > Len(cs) THEN 0
  ELSE IF cs[j] = DQuote THEN j
  ELSE IF cs[j] = Backslash THEN 0
  ELSE ScanString(cs, j + 1)

ClosingQuote(cs, i) ==
  IF i > Len(cs) \/ cs[i] # DQuote THEN 0 ELSE ScanString(cs, i + 1)

SyntaxError == <<"SyntaxError">>

\* A member followed by the members after it; a syntax error in the rest is
\* a syntax error of the whole.
WithMember(member, rest) ==
  IF rest = SyntaxError THEN SyntaxError ELSE <<member>> \o rest

\* The members of the object text from index i on, as <<name, value>> pairs:
\* a name string closed at n, a colon, a value string closed at v, then
\* either the closing brace at the end of the text or a comma and more.
RECURSIVE JsonMembers(_, _)
AfterValue(cs, i, n, v) ==
  IF v = 0 \/ v + 1 > Len(cs) THEN SyntaxError
  ELSE IF cs[v + 1] = "}"
    THEN IF v + 1 = Len(cs)
           THEN <<<<SubSeq(cs, i + 1, n - 1), SubSeq(cs, n + 3, v - 1)>>>>
           ELSE SyntaxError
  ELSE IF cs[v + 1] = ","
    THEN WithMember(<<SubSeq(cs, i + 1, n - 1), SubSeq(cs, n + 3, v - 1)>>,
                    JsonMembers(cs, v + 2))
  ELSE SyntaxError

AfterName(cs, i, n) ==
  IF n = 0 \/ n + 2 > Len(cs) THEN SyntaxError
  ELSE IF cs[n + 1] # ":" THEN SyntaxError
  ELSE AfterValue(cs, i, n, ClosingQuote(cs, n + 2))

JsonMembers(cs, i) == AfterName(cs, i, ClosingQuote(cs, i))

\* The property name a member name spells.
PropertyName(cs) ==
  CASE cs = <<"i", "d">> -> "id"
    [] cs = <<"g", "r", "o", "u", "p">> -> "group"
    [] cs = <<"d", "a", "t", "a">> -> "data"
    [] OTHER -> "other"

\* The object with the given members; a repeated name keeps its last value.
ObjectOf(ms) ==
  IF ms = SyntaxError THEN Null
  ELSE Obj("parsed",
           [name \in {PropertyName(ms[i][1]) : i \in DOMAIN ms} |->
              LET last == CHOOSE i \in DOMAIN ms :
                            /\ PropertyName(ms[i][1]) = name
                            /\ \A j \in DOMAIN ms :
                                 PropertyName(ms[j][1]) = name => j <= i
              IN Str(ms[last][2])])

\* JSON.parse(key): the parsed object, or null when it throws or the text
\* is not an object.
JSONParse(cs) ==
  IF Len(cs) < 2 \/ cs[1] # "{" THEN Null
  ELSE IF cs = <<"{", "}">> THEN Obj("parsed", [x \in {} |-> Undefined])
  ELSE ObjectOf(JsonMembers(cs, 2))

\* tryJSONFormat(key)
KeyObjectOrNull(parsed) ==
  IF Truthy(parsed) /\ IsObject(parsed) /\ HasField(parsed, "id")
    THEN parsed ELSE Null

tryJSONFormat(cs) == KeyObjectOrNull(JSONParse(cs))

\* A pipeline that drops what a strategy found and always moves on.
OrElseSkipping(x, next) == next

\* `if (x) { return x; }` followed by the next strategy
OrElse(x, next) == IF Truthy(x) THEN x ELSE next

\* A decoder that hands back a copy of an object key.
extractSWRKeyCopying(cacheKey) ==
  IF IsObject(cacheKey) /\ HasField(cacheKey, "id")
    THEN Obj(0, cacheKey.fields)
  ELSE IF ~IsString(cacheKey) THEN Null
  ELSE OrElse(tryCurrentFormat(cacheKey.s),
              OrElse(tryJSONFormat(cacheKey.s), Null))

\* extractSWRKey(cacheKey)
extractSWRKey(cacheKey) ==
  IF IsObject(cacheKey) /\ HasField(cacheKey, "id") THEN cacheKey
  ELSE IF ~IsString(cacheKey) THEN Null
  ELSE OrElse(tryCurrentFormat(cacheKey.s),
              OrElse(tryJSONFormat(cacheKey.s), Null))

-----------------------------------------------------------------------------
\* The batch functions mutateById, mutateByGroup and resetCache.  They keep no
\* state of their own: one call is followed from its arguments to the
\* settling of its promise.  The call uses slot 1 of the per-call variables;
\* `operation` says which function is called.

BatchCall == CHOOSE t \in Calls : \A u \in Calls : t <= u

\* The legacy serialized form of a structured key, as the cache library
\* writes it: #id:"..." followed by the group and data segments.
Quoted(cs) == (<<DQuote>> \o cs) \o <<DQuote>>
LegacyId(id) == ID_PATTERN \o Quoted(id)
LegacyIdGroup(id, group) ==
  ((LegacyId(id) \o <<",">>) \o GROUP_PATTERN) \o Quoted(group)

\* The raw cache keys the filters are applied to, each with the structured
\* key it stands for (NoKey when it stands for none).
NoKey == [id |-> Undefined, group |-> Undefined]
Intended(id, group) == [id |-> id, group |-> group]

KeyTable ==
  << <<Obj(1, [id |-> Str(<<"a">>)]), Intended(Str(<<"a">>), Undefined)>>,
     <<Obj(2, [id |-> Str(<<"a">>), group |-> Str(<<"g">>)]),
       Intended(Str(<<"a">>), Str(<<"g">>))>>,
     <<Obj(3, [id |-> Str(<<"b">>), group |-> Str(<<"h">>),
               data |-> Str(<<"d">>)]),
       Intended(Str(<<"b">>), Str(<<"h">>))>>,
     <<Obj(4, [id |-> Str(<<"b">>), group |-> Str(<<>>)]),
       Intended(Str(<<"b">>), Str(<<>>))>>,
     <<Obj(5, [id |-> Str(<<>>), group |-> Str(<<"g">>)]),
       Intended(Str(<<>>), Str(<<"g">>))>>,
     <<Obj(6, [other |-> Str(<<"a">>), group |-> Str(<<"g">>)]), NoKey>>,
     <<Str(LegacyIdGroup(<<"a">>, <<"g">>)),
       Intended(Str(<<"a">>), Str(<<"g">>))>>,
     <<Str(LegacyId(<<"b">>)), Intended(Str(<<"b">>), Undefined)>>,
     <<Str(<<"{">> \o Quoted(<<"i", "d">>) \o <<":">> \o Quoted(<<"b">>)
           \o <<",">> \o Quoted(<<"g", "r", "o", "u", "p">>) \o <<":">>
           \o Quoted(<<"g">>) \o <<"}">>),
       Intended(Str(<<"b">>), Str(<<"g">>))>>,
     <<Str(<<"a">>), NoKey>>,
     <<Str(<<"g">>), NoKey>>,
     <<Num(5), NoKey>> >>

BatchKeys == {KeyTable[i][1] : i \in DOMAIN KeyTable}

\* What the entries hold before the call.
OldData == Str(<<"o">>)

\* The ids, groups or preserved ids a caller names: one string or an array.
IdArgs ==
  {Str(<<"a">>), Str(<<>>), Arr(<<>>), Arr(<<Str(<<"a">>)>>),
   Arr(<<Str(<<"a">>), Str(<<"b">>)>>), Arr(<<Str(<<>>)>>)}
GroupArgs ==
  {Str(<<"g">>), Str(<<>>), Arr(<<>>), Arr(<<Str(<<"g">>)>>),
   Arr(<<Str(<<"g">>), Str(<<"h">>)>>), Arr(<<Str(<<>>)>>)}

\* newData: omitted, falsy values, an object.
NewDataValues ==
  {Undefined, Null, Num(0), Str(<<>>), Bool(FALSE),
   Obj(7, [other |-> Str(<<"n">>)])}

\* options: omitted, {}, with revalidate given (also as undefined), without.
OptionValues ==
  {Undefined,
   Obj(8, [x \in {} |-> Undefined]),
   Obj(8, [revalidate |-> Bool(TRUE)]),
   Obj(8, [revalidate |-> Bool(FALSE)]),
   Obj(8, [revalidate |-> Undefined]),
   Obj(8, [populateCache |-> Bool(FALSE)])}

BatchArgs(op) ==
  CASE op = "byId" ->
         {[ids |-> x, newData |-> d, options |-> o] :
            x \in IdArgs, d \in NewDataValues, o \in OptionValues}
    [] op = "byGroup" ->
         {[group |-> x, newData |-> d, options |-> o] :
            x \in GroupArgs, d \in NewDataValues, o \in OptionValues}
    [] op = "reset" ->
         {[preservedKeys |-> x] : x \in IdArgs \cup {Undefined, Null}}

\* (mutant) of an array of ids only the first is taken.
idListFirstOnly(ids) ==
  IF IsString(ids) THEN <<ids>>
  ELSE IF ids.items = <<>> THEN <<>> ELSE <<ids.items[1]>>

\* `typeof ids === "string" ? [ids] : ids`
idList(ids) == IF IsString(ids) THEN <<ids>> ELSE ids.items

\* `Array.isArray(group) ? group : [group]`
groupList(group) == IF group.t = "array" THEN group.items ELSE <<group>>

\* A resetCache that forgets which ids to preserve.
preservedListDropped(preservedKeys) == Null

\* resetCache: the array of preserved ids, or null for "clear everything";
\* an omitted argument takes the default `[]`.
preservedList(preservedKeys) ==
  IF preservedKeys = Undefined THEN Arr(<<>>)
  ELSE IF preservedKeys.t = "array" THEN preservedKeys
  ELSE IF Truthy(preservedKeys) THEN Arr(<<preservedKeys>>)
  ELSE Null

\* A filter that lets every key through that does not decode.
IdFilterPassingUndecoded(list, cacheKey) ==
  IF Truthy(extractSWRKey(cacheKey))
    THEN Includes(list, Field(extractSWRKey(cacheKey), "id"))
    ELSE TRUE

\* mutateById's filter, applied to one cache key
IdFilter(list, cacheKey) ==
  LET extractedKey == extractSWRKey(cacheKey)
  IN IF Truthy(extractedKey)
       THEN Includes(list, Field(extractedKey, "id"))
       ELSE FALSE

\* A filter that asks whether the group field is there instead of whether
\* it is truthy.
GroupFilterByPresence(groups, key) ==
  IF Field(extractSWRKey(key), "group") # Undefined
    THEN Includes(groups, Field(extractSWRKey(key), "group"))
    ELSE FALSE

\* mutateByGroup's filter
GroupFilter(groups, key) ==
  LET extracted == extractSWRKey(key)
  IN IF Truthy(Field(extracted, "group"))
       THEN Includes(groups, Field(extracted, "group"))
       ELSE FALSE

\* A reset filter that keeps the keys that do not decode.
ResetFilterKeepingUndecoded(keys, key) ==
  IF ~Truthy(keys) THEN TRUE
  ELSE IF Truthy(extractSWRKey(key))
    THEN ~Includes(keys.items, Field(extractSWRKey(key), "id"))
    ELSE FALSE

\* resetCache's filter
ResetFilter(keys, key) ==
  IF ~Truthy(keys) THEN TRUE
  ELSE LET extracted == extractSWRKey(key)
       IN IF Truthy(extracted)
            THEN ~Includes(keys.items, Field(extracted, "id"))
            ELSE TRUE

\* `newData ? () => newData : undefined`
Updater(newData) ==
  IF Truthy(newData) THEN [t |-> "function", returns |-> newData]
                     ELSE Undefined

\* `{ revalidate: options?.revalidate ?? !newData, ...options }`
BatchOptions(newData, options) ==
  Obj("literal",
      (IF options.t = "object" THEN options.fields
                               ELSE [x \in {} |-> Undefined])
      @@ [revalidate |->
            Coalesce(Field(options, "revalidate"), Bool(~Truthy(newData)))])

\* The call a batch function hands to the global mutate: the filter (given
\* by the keys it accepts), the data argument and the options argument.
GlobalMutate(filter, data, options) ==
  [ev |-> "mutate", filter |-> filter, data |-> data, options |-> options]

\* A call that selects every key and asks for revalidation.
BatchMutateCallRevalidating(op, a) ==
  GlobalMutate([k \in BatchKeys |-> TRUE], Undefined, Bool(TRUE))

BatchMutateCall(op, a) ==
  CASE op = "byId" ->
         GlobalMutate([k \in BatchKeys |-> IdFilter(idList(a.ids), k)],
                      Updater(a.newData),
                      BatchOptions(a.newData, a.options))
    [] op = "byGroup" ->
         GlobalMutate([k \in BatchKeys |-> GroupFilter(groupList(a.group), k)],
                      Updater(a.newData),
                      BatchOptions(a.newData, a.options))
    [] op = "reset" ->
         GlobalMutate([k \in BatchKeys |->
                         ResetFilter(preservedList(a.preservedKeys), k)],
                      Undefined,
                      Bool(FALSE))

\* The revalidate flag of a global mutate call: the third argument itself
\* when it is a boolean, else its revalidate property.
RevalidateFlag(call) ==
  IF call.options.t = "boolean" THEN call.options
                                ELSE Field(call.options, "revalidate")

\* The effect of a resolving global mutate call on the entries its filter
\* accepts: the updater's value is stored (unless populateCache is false);
\* without an updater and with revalidation off the entry is cleared;
\* otherwise the entry is left to the refetch.
BatchEffect(c, call) ==
  [k \in DOMAIN c |->
     IF ~call.filter[k] THEN c[k]
     ELSE IF call.data # Undefined
            THEN IF Field(call.options, "populateCache") = Bool(FALSE)
                   THEN c[k] ELSE call.data.returns
     ELSE IF RevalidateFlag(call) = Bool(FALSE) THEN Undefined
     ELSE c[k]]

\* What the global mutate may reject with: Error objects and a thrown string.
BatchCauses ==
  {CacheFailure, [name |-> "Error", message |-> "offline"], Str(<<"x">>)}

\* `error instanceof Error ? error.message : String(error)`
ErrorText(err) == IF "message" \in DOMAIN err THEN err.message ELSE err

\* array.join(", ") on an array of strings
RECURSIVE Join(_)
Join(items) ==
  IF items = <<>> THEN <<>>
  ELSE IF Len(items) = 1 THEN items[1].s
  ELSE (items[1].s \o <<",", " ">>) \o Join(Tail(items))

\* A catch block that reports every failure as a failed deletion without
\* naming anything.
BatchErrorAsDelete(op, a, err) ==
  [name |-> "MutationError",
   message |-> [text |-> "Failed to reset cache", names |-> Undefined,
                cause |-> ErrorText(err)],
   context |-> [operation |-> "delete", key |-> Null],
   originalError |-> err]

\* The MutationError a batch function throws from its catch block.
BatchError(op, a, err) ==
  CASE op = "byId" ->
         [name |-> "MutationError",
          message |-> [text |-> "Failed to mutate cache by ID(s): ",
                       names |-> Str(Join(idList(a.ids))),
                       cause |-> ErrorText(err)],
          context |-> [operation |-> "update", key |-> Null,
                       data |-> a.newData],
          originalError |-> err]
    [] op = "byGroup" ->
         [name |-> "MutationError",
          message |-> [text |-> "Failed to mutate cache by group(s): ",
                       names |-> Str(Join(groupList(a.group))),
                       cause |-> ErrorText(err)],
          context |-> [operation |-> "update", key |-> Null,
                       data |-> a.newData],
          originalError |-> err]
    [] op = "reset" ->
         [name |-> "MutationError",
          message |-> [text |-> "Failed to reset cache",
                       names |-> IF Truthy(preservedList(a.preservedKeys))
                                   THEN Str(Join(preservedList(a.preservedKeys).items))
                                   ELSE Undefined,
                       cause |-> ErrorText(err)],
          context |-> [operation |-> "delete", key |-> Null],
          originalError |-> err]

BatchInit ==
  /\ operation \in {"byId", "byGroup", "reset"}
  /\ optimisticUpdate = FALSE
  /\ rollbackOption = "unset"
  /\ stableKey = Null
  /\ isMountedRef = TRUE
  /\ isMutating = FALSE
  /\ error = Null
  /\ cache = [k \in BatchKeys |-> OldData]
  /\ pc = [t \in Calls |-> "idle"]
  /\ args = [t \in Calls |-> Undefined]
  /\ originalData = [t \in Calls |-> Undefined]
  /\ pending = [t \in Calls |-> TRUE]
  /\ held = [t \in Calls |-> Undefined]
  /\ result = [t \in Calls |-> Unsettled]
  /\ log = [t \in Calls |-> <<>>]
  /\ before = [t \in Calls |-> Undefined]
  /\ touched = [t \in Calls |-> FALSE]
  /\ alone = [t \in Calls |-> FALSE]
  /\ lastFailed = 0
  /\ started = 0
  /\ cacheFailures = 0

\* The function is called with arguments a: everything up to
\* `await mutate(filter, updater, options)`.
BatchStart(a) ==
  /\ pc[BatchCall] = "idle"
  /\ a \in BatchArgs(operation)
  /\ \E ok \in BOOLEAN, cause \in BatchCauses :
       LET call == BatchMutateCall(operation, a)
       IN /\ (~ok => cacheFailures < MaxCacheFailures)
          /\ cacheFailures' = IF ok THEN cacheFailures ELSE cacheFailures + 1
          /\ cache' = IF ok THEN BatchEffect(cache, call) ELSE cache
          /\ pending' = [pending EXCEPT ![BatchCall] = ok]
          /\ held' = [held EXCEPT ![BatchCall] =
                        IF ok THEN Undefined ELSE cause]
          /\ log' = [log EXCEPT ![BatchCall] = <<call>>]
  /\ pc' = [pc EXCEPT ![BatchCall] = "awaitMutate"]
  /\ args' = [args EXCEPT ![BatchCall] = a]
  /\ started' = BatchCall
  /\ UNCHANGED <<config, isMountedRef, isMutating, error, originalData,
                 result, before, touched, alone, lastFailed>>

\* The promise of the global mutate settled: the function returns, or its
\* catch block throws the MutationError.
BatchSettled ==
  /\ pc[BatchCall] = "awaitMutate"
  /\ IF pending[BatchCall]
       THEN /\ pc' = [pc EXCEPT ![BatchCall] = "resolved"]
            /\ result' = [result EXCEPT ![BatchCall] = Resolved(Undefined)]
       ELSE /\ pc' = [pc EXCEPT ![BatchCall] = "rejected"]
            /\ result' = [result EXCEPT ![BatchCall] =
                 Rejected(BatchError(operation, args[BatchCall],
                                     held[BatchCall]))]
  /\ UNCHANGED <<config, isMountedRef, isMutating, error, cache, args,
                 originalData, pending, held, log, before, touched, alone,
                 lastFailed, started, cacheFailures>>

BatchNext ==
  \/ \E a \in BatchArgs(operation) : BatchStart(a)
  \/ BatchSettled

BatchSpec == BatchInit /\ [][BatchNext]_vars

-----------------------------------------------------------------------------
\* Properties of the batch functions, checked under BatchSpec.

\* The global mutate call the batch function made.
BatchCalled(op) == operation = op /\ pc[BatchCall] # "idle"
TheCall == log[BatchCall][1]

\* The strings a caller names: a single string stands for the one-element
\* set.
Named(x) == IF IsString(x) THEN {x} ELSE {x.items[j] : j \in DOMAIN x.items}

\* The rows of the key table whose raw key the filter of the call accepts.
Accepted == {i \in DOMAIN KeyTable : TheCall.filter[KeyTable[i][1]]}

\* C18: the filter mutateById hands to the cache accepts a cache key exactly
\* when the key stands for a structured key whose id is one of the requested
\* ids (a single string being a one-element set); keys with another id and
\* keys that stand for no structured key are never accepted.
C18_IdFilterMatchesDecodedIds ==
  BatchCalled("byId") =>
    \A i \in DOMAIN KeyTable :
      (i \in Accepted) <=>
        /\ KeyTable[i][2] # NoKey
        /\ KeyTable[i][2].id \in Named(args[BatchCall].ids)

\* A call for the ids a and b: object keys, the legacy string and the JSON
\* string with these ids are accepted, the plain string "a" and the object
\* without id are not.
C18_Witness ==
  /\ BatchCalled("byId")
  /\ args[BatchCall].ids = Arr(<<Str(<<"a">>), Str(<<"b">>)>>)
  /\ {1, 3, 7, 8, 9} \subseteq Accepted
  /\ Accepted \cap {6, 10, 12} = {}

\* C19 as stated: the filter mutateByGroup hands to the cache accepts a cache
\* key exactly when the key stands for a structured key whose group is
\* present and is one of the requested groups.
C19_GroupFilterMatchesAsStated ==
  BatchCalled("byGroup") =>
    \A i \in DOMAIN KeyTable :
      (i \in Accepted) <=>
        /\ KeyTable[i][2] # NoKey
        /\ KeyTable[i][2].group # Undefined
        /\ KeyTable[i][2].group \in Named(args[BatchCall].group)

\* C19, amended: the filter accepts a cache key exactly when the key stands
\* for a structured key whose group is a non-empty string and is one of the
\* requested groups; keys without a group, keys whose group is the empty
\* string and keys that stand for no structured key are never accepted,
\* whatever the requested groups are.
C19_GroupFilterMatchesNonEmptyGroups ==
  BatchCalled("byGroup") =>
    \A i \in DOMAIN KeyTable :
      (i \in Accepted) <=>
        /\ KeyTable[i][2] # NoKey
        /\ KeyTable[i][2].group \notin {Undefined, Str(<<>>)}
        /\ KeyTable[i][2].group \in Named(args[BatchCall].group)

\* A call for the groups g and h: the object keys, the legacy string and the
\* JSON string in these groups are accepted; the keys without a group, the
\* key with the empty group and the object without id are not.
C19_Witness ==
  /\ BatchCalled("byGroup")
  /\ args[BatchCall].group = Arr(<<Str(<<"g">>), Str(<<"h">>)>>)
  /\ {2, 3, 5, 7, 9} \subseteq Accepted
  /\ Accepted \cap {1, 4, 6, 8, 10, 11} = {}

\* C20: for mutateById and mutateByGroup the revalidate flag passed to the
\* cache is the caller's options.revalidate whenever the options carry one;
\* otherwise it is false when a newData argument is passed and true when it
\* is omitted.
C20_RevalidateFlag ==
  (BatchCalled("byId") \/ BatchCalled("byGroup")) =>
    RevalidateFlag(TheCall) =
      IF /\ IsObject(args[BatchCall].options)
         /\ HasField(args[BatchCall].options, "revalidate")
        THEN Field(args[BatchCall].options, "revalidate")
      ELSE IF args[BatchCall].newData # Undefined THEN Bool(FALSE)
      ELSE Bool(TRUE)

\* C21: for every newData other than undefined passed to mutateById or
\* mutateByGroup, falsy values included, the cache receives an updater that
\* returns exactly newData and, when the options carry no revalidate, the
\* revalidate flag is false.
C21_EveryNewDataIsInstalled ==
  ((BatchCalled("byId") \/ BatchCalled("byGroup"))
     /\ args[BatchCall].newData # Undefined) =>
    /\ TheCall.data = [t |-> "function", returns |-> args[BatchCall].newData]
    /\ ~(/\ IsObject(args[BatchCall].options)
         /\ HasField(args[BatchCall].options, "revalidate"))
         => RevalidateFlag(TheCall) = Bool(FALSE)

\* The batch call rejected and the function settled.
BatchRejected(op) == operation = op /\ pc[BatchCall] = "rejected"
Thrown == result[BatchCall].value

\* The characters sub occur in cs as a contiguous run.
Occurs(sub, cs) ==
  \E i \in 0..(Len(cs) - Len(sub)) : SubSeq(cs, i + 1, i + Len(sub)) = sub

\* C22: when the cache call of mutateById or mutateByGroup rejects with
\* cause c, the function rejects with a MutationError whose context has
\* operation "update", key null and data equal to the newData argument,
\* whose originalError is c and whose message names every requested id or
\* group.
C22_BatchUpdateFailure ==
  \A op \in {"byId", "byGroup"} :
    BatchRejected(op) =>
      /\ result[BatchCall].settled = "rejected"
      /\ IsMutationError(Thrown)
      /\ Thrown.context.operation = "update"
      /\ Thrown.context.key = Null
      /\ Thrown.context.data = args[BatchCall].newData
      /\ Thrown.originalError = held[BatchCall]
      /\ Thrown.originalError \in BatchCauses
      /\ \A x \in Named(IF op = "byId" THEN args[BatchCall].ids
                                       ELSE args[BatchCall].group) :
           Occurs(x.s, Thrown.message.names.s)

\* mutateById for the ids a and b with an object as newData rejected after
\* the cache call failed with the "offline" error.
C22_Witness ==
  /\ BatchRejected("byId")
  /\ args[BatchCall].ids = Arr(<<Str(<<"a">>), Str(<<"b">>)>>)
  /\ IsObject(args[BatchCall].newData)
  /\ held[BatchCall] = [name |-> "Error", message |-> "offline"]
  /\ Thrown.originalError = held[BatchCall]
  /\ Thrown.message.names = Str(<<"a", ",", " ", "b">>)

\* The ids resetCache is asked to preserve: none when the argument is
\* omitted, null or empty.
Preserved(x) == IF x \in {Undefined, Null, Str(<<>>)} THEN {} ELSE Named(x)

\* C23: the filter resetCache hands to the cache selects every cache key
\* except those that stand for a structured key whose id is among the
\* preserved ids; keys that stand for no structured key are always
\* selected, and with the argument omitted, null or empty every key is.
C23_ResetFilterSelects ==
  BatchCalled("reset") =>
    /\ \A i \in DOMAIN KeyTable :
         (i \in Accepted) <=>
           ~(/\ KeyTable[i][2] # NoKey
             /\ KeyTable[i][2].id \in Preserved(args[BatchCall].preservedKeys))
    /\ \A i \in DOMAIN KeyTable : KeyTable[i][2] = NoKey => i \in Accepted
    /\ args[BatchCall].preservedKeys
         \in {Undefined, Null, Str(<<>>), Arr(<<>>)}
         => Accepted = DOMAIN KeyTable

\* resetCache(["a", "b"]): the keys with id a or b are kept in every form
\* (object, legacy string, JSON string), the key with the empty id and the
\* keys that do not decode are selected.
C23_Witness ==
  /\ BatchCalled("reset")
  /\ args[BatchCall].preservedKeys = Arr(<<Str(<<"a">>), Str(<<"b">>)>>)
  /\ Accepted = {5, 6, 10, 11, 12}

\* C24: for every preservedKeys argument resetCache calls the cache with
\* undefined data and revalidate false; when the call resolves every entry
\* is either untouched or cleared, none holds a new value.
C24_ResetNeverInstallsNorRefetches ==
  BatchCalled("reset") =>
    /\ TheCall.data = Undefined
    /\ TheCall.options = Bool(FALSE)
    /\ RevalidateFlag(TheCall) = Bool(FALSE)
    /\ \A k \in BatchKeys :
         cache[k] = IF pending[BatchCall] /\ TheCall.filter[k]
                      THEN Undefined ELSE OldData

\* resetCache("a") resolved: the entries of id a still hold their data, the
\* others are cleared.
C24_Witness ==
  /\ operation = "reset"
  /\ pc[BatchCall] = "resolved"
  /\ args[BatchCall].preservedKeys = Str(<<"a">>)
  /\ cache[KeyTable[1][1]] = OldData
  /\ cache[KeyTable[3][1]] = Undefined
  /\ cache[KeyTable[10][1]] = Undefined

\* C25: when the cache call of resetCache rejects with cause c, resetCache
\* rejects with a MutationError whose context has operation "delete" and key
\* null, whose originalError is c, and whose message lists the preserved ids
\* when any were given.
C25_ResetFailure ==
  BatchRejected("reset") =>
    /\ result[BatchCall].settled = "rejected"
    /\ IsMutationError(Thrown)
    /\ Thrown.context.operation = "delete"
    /\ Thrown.context.key = Null
    /\ Thrown.originalError = held[BatchCall]
    /\ Thrown.originalError \in BatchCauses
    /\ Preserved(args[BatchCall].preservedKeys) # {} =>
         /\ Thrown.message.names # Undefined
         /\ \A x \in Preserved(args[BatchCall].preservedKeys) :
              Occurs(x.s, Thrown.message.names.s)

\* resetCache(["a", "b"]) rejected after the cache call failed with the
\* thrown string.
C25_Witness ==
  /\ BatchRejected("reset")
  /\ args[BatchCall].preservedKeys = Arr(<<Str(<<"a">>), Str(<<"b">>)>>)
  /\ held[BatchCall] = Str(<<"x">>)
  /\ Thrown.originalError = Str(<<"x">>)
  /\ Thrown.message.names = Str(<<"a", ",", " ", "b">>)

-----------------------------------------------------------------------------
\* extractSWRKey on its own.  A raw key is decoded, and the result decoded
\* once more; or a structured key is first written in the serialized form
\* and then decoded.  The run uses the slot BatchCall: args holds the raw
\* key, originalData the structured key that was serialized, result the
\* decoded key and held the result of decoding that again.

\* #id:"...",data:"..."  and  #id:"...",group:"...",data:"..."
LegacyIdData(id, data) ==
  ((LegacyId(id) \o <<",">>) \o <<"d", "a", "t", "a", ":">>) \o Quoted(data)
LegacyKey(id, group, data) ==
  ((((LegacyId(id) \o <<",">>) \o <<"g", "r", "o", "u", "p", ":">>)
      \o Quoted(group)) \o <<",">>)
    \o (<<"d", "a", "t", "a", ":">> \o Quoted(data))

\* A JSON object text with one or two string members.
Json1(n1, v1) ==
  (((<<"{">> \o Quoted(n1)) \o <<":">>) \o Quoted(v1)) \o <<"}">>
Json2(n1, v1, n2, v2) ==
  (((((((<<"{">> \o Quoted(n1)) \o <<":">>) \o Quoted(v1)) \o <<",">>)
      \o Quoted(n2)) \o <<":">>) \o Quoted(v2)) \o <<"}">>

\* What a raw key is expected to decode to.
Decoded(id, group, data) == [id |-> id, group |-> group, data |-> data]
NoDecode == [id |-> Null, group |-> Null, data |-> Null]

\* Raw keys with the structured key each is expected to decode to: object
\* keys, serialized strings with and without group and data, with escaped
\* characters, malformed ones, JSON texts, and values that are no key.
DecodeTable ==
  << <<Obj(1, [id |-> Str(<<"a">>)]),
       Decoded(Str(<<"a">>), Undefined, Undefined)>>,
     <<Obj(3, [id |-> Str(<<"b">>), group |-> Str(<<"h">>),
               data |-> Str(<<"d">>)]),
       Decoded(Str(<<"b">>), Str(<<"h">>), Str(<<"d">>))>>,
     <<Obj(5, [id |-> Str(<<>>), group |-> Str(<<"g">>)]),
       Decoded(Str(<<>>), Str(<<"g">>), Undefined)>>,
     <<Obj(6, [other |-> Str(<<"a">>), group |-> Str(<<"g">>)]), NoDecode>>,
     <<Str(LegacyKey(<<"a">>, <<"g">>, <<"d">>)),
       Decoded(Str(<<"a">>), Str(<<"g">>), Str(<<"d">>))>>,
     <<Str(LegacyIdGroup(<<"a">>, <<"g">>)),
       Decoded(Str(<<"a">>), Str(<<"g">>), Undefined)>>,
     <<Str(LegacyIdData(<<"a">>, <<"d">>)),
       Decoded(Str(<<"a">>), Undefined, Str(<<"d">>))>>,
     <<Str(LegacyId(<<"b">>)), Decoded(Str(<<"b">>), Undefined, Undefined)>>,
     <<Str(LegacyId(<<"a", Backslash, DQuote, "b">>)),
       Decoded(Str(<<"a", DQuote, "b">>), Undefined, Undefined)>>,
     <<Str(LegacyIdGroup(<<"a">>, <<Backslash, Backslash>>)),
       Decoded(Str(<<"a">>), Str(<<Backslash>>), Undefined)>>,
     <<Str(LegacyIdData(<<"a">>, <<"x", Backslash, "n">>)),
       Decoded(Str(<<"a">>), Undefined, Str(<<"x", "n">>))>>,
     <<Str(LegacyId(<<"a", Backslash, LineFeed, "b">>)), NoDecode>>,
     <<Str(LegacyIdGroup(<<"a">>, <<"g", Backslash, LineFeed>>)),
       Decoded(Str(<<"a">>), Undefined, Undefined)>>,
     <<Str(LegacyId(<<"a", LineFeed, "b">>)),
       Decoded(Str(<<"a", LineFeed, "b">>), Undefined, Undefined)>>,
     <<Str(<<"#", "i", "d", ":", "a">>), NoDecode>>,
     <<Str(<<"#", "i", "d", ":", DQuote, "a">>), NoDecode>>,
     <<Str(<<"#", "i", "d", ":", DQuote, "a", Backslash, DQuote>>), NoDecode>>,
     <<Str(<<"x">> \o LegacyId(<<"a">>)), NoDecode>>,
     <<Str(Json1(<<"i", "d">>, <<"b">>)),
       Decoded(Str(<<"b">>), Undefined, Undefined)>>,
     <<Str(Json2(<<"i", "d">>, <<"b">>, <<"g", "r", "o", "u", "p">>, <<"g">>)),
       Decoded(Str(<<"b">>), Str(<<"g">>), Undefined)>>,
     <<Str(Json2(<<"d", "a", "t", "a">>, <<"d">>, <<"i", "d">>, <<"a">>)),
       Decoded(Str(<<"a">>), Undefined, Str(<<"d">>))>>,
     <<Str(Json1(<<"x">>, <<"y">>)), NoDecode>>,
     <<Str(<<"{", "}">>), NoDecode>>,
     <<Str(<<"{", DQuote, "i", "d", DQuote, ":", DQuote, "a", DQuote>>),
       NoDecode>>,
     <<Str(<<"a">>), NoDecode>>,
     <<Str(<<>>), NoDecode>>,
     <<Str(<<"i", "d">>), NoDecode>>,
     <<Num(5), NoDecode>>,
     <<Bool(TRUE), NoDecode>>,
     <<Arr(<<Str(<<"a">>)>>), NoDecode>>,
     <<Null, NoDecode>>,
     <<Undefined, NoDecode>> >>

RawKeys == {DecodeTable[i][1] : i \in DOMAIN DecodeTable}

\* Strings of ASCII alphanumerics, the pattern labels' words among them.
AlnumStrings ==
  {<<>>, <<"a">>, <<"Z", "9">>, <<"i", "d">>, <<"g", "r", "o", "u", "p">>,
   <<"d", "a", "t", "a">>}

\* Structured keys whose id, group and data are such strings.
AlnumKeys ==
  {Obj(9, [id |-> Str(i), group |-> Str(g), data |-> Str(d)]) :
     i \in AlnumStrings, g \in AlnumStrings, d \in AlnumStrings}

\* The serialized form of a structured key with string id, group and data.
Serialized(key) ==
  Str(LegacyKey(key.fields.id.s, key.fields.group.s, key.fields.data.s))

DecodeInit ==
  /\ operation = "decode"
  /\ optimisticUpdate = FALSE
  /\ rollbackOption = "unset"
  /\ stableKey = Null
  /\ isMountedRef = TRUE
  /\ isMutating = FALSE
  /\ error = Null
  /\ cache = [k \in {} |-> Undefined]
  /\ pc = [t \in Calls |-> "idle"]
  /\ args = [t \in Calls |-> Undefined]
  /\ originalData = [t \in Calls |-> Undefined]
  /\ pending = [t \in Calls |-> TRUE]
  /\ held = [t \in Calls |-> Undefined]
  /\ result = [t \in Calls |-> Unsettled]
  /\ log = [t \in Calls |-> <<>>]
  /\ before = [t \in Calls |-> Undefined]
  /\ touched = [t \in Calls |-> FALSE]
  /\ alone = [t \in Calls |-> FALSE]
  /\ lastFailed = 0
  /\ started = 0
  /\ cacheFailures = 0

\* A raw key arrives.
TakeRawKey(k) ==
  /\ pc[BatchCall] = "idle"
  /\ k \in RawKeys
  /\ args' = [args EXCEPT ![BatchCall] = k]
  /\ pc' = [pc EXCEPT ![BatchCall] = "given"]
  /\ UNCHANGED <<config, isMountedRef, isMutating, error, cache, originalData,
                 pending, held, result, log, before, touched, alone,
                 lastFailed, started, cacheFailures>>

\* A structured key is written in the serialized form.
Serialize(key) ==
  /\ pc[BatchCall] = "idle"
  /\ key \in AlnumKeys
  /\ originalData' = [originalData EXCEPT ![BatchCall] = key]
  /\ args' = [args EXCEPT ![BatchCall] = Serialized(key)]
  /\ pc' = [pc EXCEPT ![BatchCall] = "given"]
  /\ UNCHANGED <<config, isMountedRef, isMutating, error, cache, pending,
                 held, result, log, before, touched, alone, lastFailed,
                 started, cacheFailures>>

\* extractSWRKey(rawKey)
Decode ==
  /\ pc[BatchCall] = "given"
  /\ result' = [result EXCEPT ![BatchCall] =
                  Resolved(extractSWRKey(args[BatchCall]))]
  /\ pc' = [pc EXCEPT ![BatchCall] = "decoded"]
  /\ UNCHANGED <<config, isMountedRef, isMutating, error, cache, args,
                 originalData, pending, held, log, before, touched, alone,
                 lastFailed, started, cacheFailures>>

\* extractSWRKey applied to its own result
DecodeAgain ==
  /\ pc[BatchCall] = "decoded"
  /\ held' = [held EXCEPT ![BatchCall] =
                extractSWRKey(result[BatchCall].value)]
  /\ pc' = [pc EXCEPT ![BatchCall] = "redecoded"]
  /\ UNCHANGED <<config, isMountedRef, isMutating, error, cache, args,
                 originalData, pending, result, log, before, touched, alone,
                 lastFailed, started, cacheFailures>>

DecodeNext ==
  \/ \E k \in RawKeys : TakeRawKey(k)
  \/ \E key \in AlnumKeys : Serialize(key)
  \/ Decode
  \/ DecodeAgain

DecodeSpec == DecodeInit /\ [][DecodeNext]_vars

-----------------------------------------------------------------------------
\* Properties of extractSWRKey, checked under DecodeSpec.

HasDecoded == operation = "decode" /\ pc[BatchCall] \in {"decoded", "redecoded"}
RawKey == args[BatchCall]
DecodedKey == result[BatchCall].value

\* The structured key a raw key of the table is expected to decode to.
Expected(k) ==
  LET i == CHOOSE j \in DOMAIN DecodeTable : DecodeTable[j][1] = k
  IN DecodeTable[i][2]

\* The decoded key carries the expected id, group and data.
DecodesTo(v, e) ==
  IF e = NoDecode THEN v = Null
  ELSE /\ IsObject(v)
       /\ Field(v, "id") = e.id
       /\ Field(v, "group") = e.group
       /\ Field(v, "data") = e.data

\* C26: decoding a raw key that is a non-null object with an id field
\* returns that very object, so decoding the result again returns it too.
C26_ObjectKeyIsReturnedAsIs ==
  (HasDecoded /\ IsObject(RawKey) /\ HasField(RawKey, "id")) =>
    /\ DecodedKey = RawKey
    /\ DecodedKey.ref = RawKey.ref
    /\ pc[BatchCall] = "redecoded" => held[BatchCall] = DecodedKey

\* The object key with id, group and data was decoded twice.
C26_Witness ==
  /\ operation = "decode"
  /\ pc[BatchCall] = "redecoded"
  /\ RawKey = DecodeTable[2][1]
  /\ held[BatchCall] = RawKey

\* C27: the strategies are tried in the order object with id, string with
\* the "#id:" marker, JSON text of an object with id, and the first that
\* yields a key decides; every other input (an object without id, a string
\* of neither form, a value that is neither) decodes to null, and the
\* decoder always returns.
C27_DecodeStrategies ==
  (HasDecoded /\ originalData[BatchCall] = Undefined) =>
    /\ result[BatchCall].settled = "resolved"
    /\ DecodesTo(DecodedKey, Expected(RawKey))
    /\ (IsObject(RawKey) /\ HasField(RawKey, "id")) => DecodedKey = RawKey
    /\ (~IsObject(RawKey) /\ ~IsString(RawKey)) => DecodedKey = Null
    /\ (IsObject(RawKey) /\ ~HasField(RawKey, "id")) => DecodedKey = Null
    /\ (IsString(RawKey) /\ DecodedKey # Null) =>
         \/ StartsWith(RawKey.s, <<"#", "i", "d", ":">>)
         \/ StartsWith(RawKey.s, <<"{">>)

\* The JSON text {"data":"d","id":"a"} was decoded by the third strategy.
C27_Witness ==
  /\ HasDecoded
  /\ RawKey = Str(Json2(<<"d", "a", "t", "a">>, <<"d">>, <<"i", "d">>, <<"a">>))
  /\ DecodesTo(DecodedKey, Decoded(Str(<<"a">>), Undefined, Str(<<"d">>)))

C29_SerializedKeyRoundTrips ==
  (HasDecoded /\ originalData[BatchCall] # Undefined) =>
    /\ IsObject(DecodedKey)
    /\ Field(DecodedKey, "id") = originalData[BatchCall].fields.id
    /\ Field(DecodedKey, "group") = originalData[BatchCall].fields.group
    /\ Field(DecodedKey, "data") = originalData[BatchCall].fields.data

\* The key with id "group", group "data" and data "id" went through the
\* serialized form and came back.
C29_Witness ==
  /\ HasDecoded
  /\ originalData[BatchCall] =
       Obj(9, [id |-> Str(<<"g", "r", "o", "u", "p">>),
               group |-> Str(<<"d", "a", "t", "a">>),
               data |-> Str(<<"i", "d">>)])
  /\ RawKey = Serialized(originalData[BatchCall])
  /\ Field(DecodedKey, "id") = Str(<<"g", "r", "o", "u", "p">>)
  /\ Field(DecodedKey, "data") = Str(<<"i", "d">>)

\* A quoted segment as a writer composes it: characters, some of them
\* escaped with a backslash.
Plain(c) == [esc |-> FALSE, c |-> c]
Esc(c) == [esc |-> TRUE, c |-> c]

RECURSIVE Written(_)
Written(ps) ==
  IF ps = <<>> THEN <<>>
  ELSE (IF Head(ps).esc THEN <<Backslash, Head(ps).c>> ELSE <<Head(ps).c>>)
         \o Written(Tail(ps))

Content(ps) == [i \in DOMAIN ps |-> ps[i].c]

\* Serialized strings with an escaped character in the id, the group or the
\* data segment: a quote, a backslash, the letter n, a line feed.
EscapedSegments ==
  << [field |-> "id", pieces |-> <<Plain("a"), Esc(DQuote), Plain("b")>>,
      raw |-> Str(LegacyId(<<"a", Backslash, DQuote, "b">>))],
     [field |-> "group", pieces |-> <<Esc(Backslash)>>,
      raw |-> Str(LegacyIdGroup(<<"a">>, <<Backslash, Backslash>>))],
     [field |-> "data", pieces |-> <<Plain("x"), Esc("n")>>,
      raw |-> Str(LegacyIdData(<<"a">>, <<"x", Backslash, "n">>))],
     [field |-> "id", pieces |-> <<Plain("a"), Esc(LineFeed), Plain("b")>>,
      raw |-> Str(LegacyId(<<"a", Backslash, LineFeed, "b">>))],
     [field |-> "group", pieces |-> <<Plain("g"), Esc(LineFeed)>>,
      raw |-> Str(LegacyIdGroup(<<"a">>, <<"g", Backslash, LineFeed>>))] >>

\* C38 (as stated): in a serialized string a backslash-escaped character
\* inside the quoted id, group or data segment does not end the segment, and
\* the decoded field is the segment's content with each escaping backslash
\* removed and the character after it kept.
C38_EscapedCharactersAreKept ==
  HasDecoded =>
    \A i \in DOMAIN EscapedSegments :
      LET e == EscapedSegments[i]
      IN RawKey = e.raw =>
           /\ IsObject(DecodedKey)
           /\ Field(DecodedKey, e.field) = Str(Content(e.pieces))

-----------------------------------------------------------------------------
\* useStableKey.  The hook keeps one ref, stableKeyRef, across the renders of
\* a component; each render calls it with a key.  Here `stableKey` holds
\* stableKeyRef.current and `started` counts the renders; in the slot
\* BatchCall, args is the key of the latest render, result what that render
\* returned, held what the render before it returned and before the last
\* key (not null) that any render before the latest returned.

MaxRenders == 3

\* A data object with its members in insertion order, as <<name, value>>.
Rec(ref, members) == [t |-> "record", ref |-> ref, members |-> members]

\* a === b: objects by reference, everything else by value
StrictEquals(a, b) ==
  IF a.t = "record" /\ b.t = "record" THEN a.ref = b.ref
  ELSE IF a.t = "object" /\ b.t = "object" THEN a.ref = b.ref
  ELSE a = b

\* JSON.stringify of a data object: the members with a defined value, in
\* insertion order.
RECURSIVE DefinedMembers(_)
DefinedMembers(members) ==
  IF members = <<>> THEN <<>>
  ELSE IF Head(members)[2] = Undefined THEN DefinedMembers(Tail(members))
  ELSE <<Head(members)>> \o DefinedMembers(Tail(members))

JSONStringify(v) == DefinedMembers(v.members)

\* A comparison that stops at reference equality.
deepEqualByReference(a, b) == StrictEquals(a, b)

\* deepEqual(a, b)
deepEqual(a, b) ==
  IF StrictEquals(a, b) THEN TRUE
  ELSE IF a.t \in {"undefined", "null"} \/ b.t \in {"undefined", "null"}
    THEN FALSE
  ELSE IF a.t # "record" \/ b.t # "record" THEN FALSE
  ELSE JSONStringify(a) = JSONStringify(b)

\* A constructor that hands out one and the same object every time.
NewKeyReusingReference(ref, id, group, data) ==
  Obj(1, [id |-> id, group |-> group, data |-> data])

\* `{ id, group, data }`, a new object
NewKey(ref, id, group, data) ==
  Obj(ref, [id |-> id, group |-> group, data |-> data])

\* A stabilizer that hands back the last key when the new one is unusable.
useStableKeyKeepingLast(current, key, fresh) ==
  IF ~Truthy(key) THEN current
  ELSE IF ~(Truthy(Field(key, "id")) /\ Truthy(Field(key, "data")))
    THEN current
  ELSE NewKey(fresh, Field(key, "id"), Field(key, "group"),
              Field(key, "data"))

\* The stable key must change: the ref holds none, or id, group or data
\* differ from the held one.
KeyChanged(currentKey, id, group, data) ==
  \/ ~Truthy(currentKey)
  \/ ~StrictEquals(Field(currentKey, "id"), id)
  \/ ~StrictEquals(Field(currentKey, "group"), group)
  \/ ~deepEqual(Field(currentKey, "data"), data)

\* useStableKey(key) with stableKeyRef.current = current: the new value of
\* stableKeyRef.current, which is also what the call returns.  `fresh` is
\* the reference of the object the call constructs if it constructs one.
useStableKey(current, key, fresh) ==
  IF ~Truthy(key) THEN Null
  ELSE IF ~(Truthy(Field(key, "id")) /\ Truthy(Field(key, "data")))
    THEN Null
  ELSE IF KeyChanged(current, Field(key, "id"), Field(key, "group"),
                     Field(key, "data"))
    THEN NewKey(fresh, Field(key, "id"), Field(key, "group"),
                Field(key, "data"))
  ELSE current

\* The data a key may carry: missing, falsy, a string, and data objects, two
\* of them equal member by member, two with the same members in another
\* order.
KeyData ==
  {Undefined, Str(<<>>), Num(0), Str(<<"u">>),
   Rec(1, <<<<"url", Str(<<"u">>)>>>>),
   Rec(2, <<<<"url", Str(<<"u">>)>>>>),
   Rec(3, <<<<"url", Str(<<"v">>)>>>>),
   Rec(4, <<<<"a", Num(1)>>, <<"b", Num(2)>>>>),
   Rec(5, <<<<"b", Num(2)>>, <<"a", Num(1)>>>>)}

\* The keys a render may pass: usable keys with every data value that is
\* truthy, and unusable ones: null, an empty or missing id, missing or falsy
\* data.
KeyArgs ==
  {Obj("arg", [id |-> i, group |-> g, data |-> d]) :
     i \in {Str(<<"a">>), Str(<<"b">>)},
     g \in {Undefined, Str(<<"g">>)},
     d \in {x \in KeyData : Truthy(x)}}
    \cup {Null,
          Obj("arg", [id |-> Str(<<>>), group |-> Undefined,
                      data |-> Str(<<"u">>)]),
          Obj("arg", [data |-> Str(<<"u">>)]),
          Obj("arg", [id |-> Str(<<"a">>)])}
    \cup {Obj("arg", [id |-> Str(<<"a">>), group |-> Str(<<"g">>), data |-> d]) :
            d \in {x \in KeyData : ~Truthy(x)}}

StableKeyInit ==
  /\ operation = "render"
  /\ optimisticUpdate = FALSE
  /\ rollbackOption = "unset"
  /\ stableKey = Null
  /\ isMountedRef = TRUE
  /\ isMutating = FALSE
  /\ error = Null
  /\ cache = [k \in {} |-> Undefined]
  /\ pc = [t \in Calls |-> "idle"]
  /\ args = [t \in Calls |-> Undefined]
  /\ originalData = [t \in Calls |-> Undefined]
  /\ pending = [t \in Calls |-> TRUE]
  /\ held = [t \in Calls |-> Undefined]
  /\ result = [t \in Calls |-> Unsettled]
  /\ log = [t \in Calls |-> <<>>]
  /\ before = [t \in Calls |-> Undefined]
  /\ touched = [t \in Calls |-> FALSE]
  /\ alone = [t \in Calls |-> FALSE]
  /\ lastFailed = 0
  /\ started = 0
  /\ cacheFailures = 0

\* A render of the component calls useStableKey(key).
Render(key) ==
  /\ started < MaxRenders
  /\ key \in KeyArgs
  /\ stableKey' = useStableKey(stableKey, key, started + 1)
  /\ started' = started + 1
  /\ args' = [args EXCEPT ![BatchCall] = key]
  /\ held' = [held EXCEPT ![BatchCall] = result[BatchCall].value]
  /\ before' = [before EXCEPT ![BatchCall] =
                  IF IsObject(result[BatchCall].value)
                    THEN result[BatchCall].value ELSE before[BatchCall]]
  /\ result' = [result EXCEPT ![BatchCall] =
                  Resolved(useStableKey(stableKey, key, started + 1))]
  /\ pc' = [pc EXCEPT ![BatchCall] = "rendered"]
  /\ UNCHANGED <<operation, optimisticUpdate, rollbackOption, isMountedRef,
                 isMutating, error, cache, originalData, pending, log,
                 touched, alone, lastFailed, cacheFailures>>

StableKeyNext == \E key \in KeyArgs : Render(key)

StableKeySpec == StableKeyInit /\ [][StableKeyNext]_vars

-----------------------------------------------------------------------------
\* Properties of useStableKey, checked under StableKeySpec.

Rendered == operation = "render" /\ pc[BatchCall] = "rendered"

\* The key of the latest render is null or lacks a truthy id or data.
UnusableKey(key) ==
  \/ key = Null
  \/ Field(key, "id") \in {Undefined, Null, Str(<<>>)}
  \/ Field(key, "data") \in {Undefined, Null, Str(<<>>), Num(0)}

\* C30: useStableKey returns null whenever the given key is null or its id
\* or its data is falsy, regardless of what it returned on earlier renders.
C30_UnusableKeyGivesNull ==
  (Rendered /\ UnusableKey(args[BatchCall])) =>
    /\ result[BatchCall] = Resolved(Null)
    /\ stableKey = Null

\* A render with an empty id right after a render that returned a key.
C30_Witness ==
  /\ Rendered
  /\ Field(args[BatchCall], "id") = Str(<<>>)
  /\ Truthy(Field(args[BatchCall], "data"))
  /\ IsObject(held[BatchCall])
  /\ result[BatchCall] = Resolved(Null)

\* The JSON text of each data object of KeyData, written out by hand.
JsonTextOf(ref) ==
  CASE ref = 1 -> "{\"url\":\"u\"}"
    [] ref = 2 -> "{\"url\":\"u\"}"
    [] ref = 3 -> "{\"url\":\"v\"}"
    [] ref = 4 -> "{\"a\":1,\"b\":2}"
    [] ref = 5 -> "{\"b\":2,\"a\":1}"

\* Deep equality of two data values as the specification defines it: the
\* same value or reference, or two objects with the same serialization.
SameData(a, b) ==
  IF a.t = "record" /\ b.t = "record"
    THEN JsonTextOf(a.ref) = JsonTextOf(b.ref)
    ELSE a = b

\* The latest render and the one before it both got a usable key.
PreviousKey == held[BatchCall]
ReturnedKey == result[BatchCall].value
ValidAfterValid ==
  /\ Rendered
  /\ ~UnusableKey(args[BatchCall])
  /\ IsObject(PreviousKey)

\* The key of the latest render has the id, the group and, up to deep
\* equality, the data of the key returned before.
SameAsPrevious ==
  /\ Field(args[BatchCall], "id") = PreviousKey.fields.id
  /\ Field(args[BatchCall], "group") = PreviousKey.fields.group
  /\ SameData(Field(args[BatchCall], "data"), PreviousKey.fields.data)

C36_ForgetsAfterUnusableKey ==
  (Rendered /\ ~UnusableKey(args[BatchCall]) /\ PreviousKey = Null) =>
    /\ ReturnedKey = NewKey(started, Field(args[BatchCall], "id"),
                            Field(args[BatchCall], "group"),
                            Field(args[BatchCall], "data"))
    /\ IsObject(before[BatchCall]) => ReturnedKey.ref # before[BatchCall].ref

\* Three renders: a valid key, null, the same valid key again; the third
\* render returns an object with the members of the first render's but
\* another reference.
C36_Witness ==
  /\ Rendered
  /\ started = 3
  /\ PreviousKey = Null
  /\ args[BatchCall] # Null /\ ~UnusableKey(args[BatchCall])
  /\ IsObject(before[BatchCall])
  /\ before[BatchCall].ref = 1
  /\ ReturnedKey.fields = before[BatchCall].fields
  /\ ReturnedKey.ref = 3

-----------------------------------------------------------------------------
\* to(promise): the settlement of the promise it returns, from the
\* settlement of the promise it is given.
to(promise) ==
  IF promise.settled = "resolved"
    THEN Resolved(<<promise.value, Null>>)
    ELSE Resolved(<<Null, promise.value>>)

\* C32: to(p) never rejects; it resolves with [v, null] when p resolves with
\* v and with [null, e] when p rejects with e, the very error object; and
\* to(trigger(args)) of a trigger whose remote call failed resolves with
\* [null, the MutationError].
C32_ToOfTrigger ==
  \A t \in Calls :
    Settled(t) =>
      /\ to(result[t]).settled = "resolved"
      /\ result[t].settled = "resolved"
           => to(result[t]).value = <<result[t].value, Null>>
      /\ result[t].settled = "rejected"
           => to(result[t]).value = <<Null, result[t].value>>
      /\ RemoteRejected(t) =>
           /\ to(result[t]).value[1] = Null
           /\ IsMutationError(to(result[t]).value[2])

-----------------------------------------------------------------------------
\* Further claims about the hooks' trigger

\* C33: with an optimistic update configured and rollback enabled, once
\* every trigger that was called has settled after its remote call rejected
\* (and none of their cache calls failed), the cached value of the stable key
\* is the one the first of them found when it started.
C33_OverlappingRollbacksRestore ==
  (/\ optimisticUpdate
   /\ rollbackOnError
   /\ started >= 1
   /\ \A t \in 1..started :
        Passed(t) /\ Settled(t) /\ RemoteRejected(t) /\ NoCacheCallFailed(t))
  => CacheValue(cache, stableKey) = before[1]


\* C34 (as stated): a trigger whose remote call resolved with r never makes a
\* rollback write, never sets the error state to an error, and resolves with
\* r, also when the revalidation that follows rejects.
C34_SuccessIsNeverUndone ==
  \A t \in Calls : \A r \in RemoteResults :
    RemoteResolvedWith(t, r) =>
      /\ \A i \in DOMAIN log[t] :
           /\ log[t][i] # rollbackOptimisticUpdate(stableKey, originalData[t])
           /\ log[t][i].ev = "setError" => log[t][i].value = Null
      /\ Settled(t) => result[t] = Resolved(r)


\* C35: a trigger whose remote call rejected has issued the rollback write
\* exactly when an optimistic transform is configured and rollbackOnError is
\* not false; that write carries the value cached when the trigger started,
\* undefined included, with revalidate=false; without an optimistic transform
\* the failing trigger has made no cache mutate call at all.
C35_RollbackWriteExactlyWhenEnabled ==
  \A t \in Calls :
    RemoteRejected(t) =>
      /\ (optimisticUpdate /\ rollbackOption # "false")
           => MutateCalls(t) = <<OptimisticWrite(t),
                                 swrMutate(stableKey, before[t], FalseFlag)>>
      /\ (optimisticUpdate /\ rollbackOption = "false")
           => MutateCalls(t) = <<OptimisticWrite(t)>>
      /\ ~optimisticUpdate => MutateCalls(t) = <<>>

\* C35 witness: the key was not cached when the trigger started; its remote
\* call rejected, the rollback wrote undefined back and the entry is
\* undefined again.
C35_Witness ==
  \E t \in Calls :
    /\ optimisticUpdate
    /\ rollbackOption # "false"
    /\ stableKey # Null
    /\ before[t] = Undefined
    /\ RemoteRejected(t)
    /\ pc[t] = "rejected"
    /\ NoCacheCallFailed(t)
    /\ Len(MutateCalls(t)) = 2
    /\ MutateCalls(t)[1].data # Undefined
    /\ MutateCalls(t)[2] = swrMutate(stableKey, Undefined, FalseFlag)
    /\ CacheValue(cache, stableKey) = Undefined


-----------------------------------------------------------------------------
\* resetCache against mutateById

\* The filters the two functions hand to the cache for the same ids.
ByIdFilterFor(x) ==
  BatchMutateCall("byId",
                  [ids |-> x, newData |-> Undefined, options |-> Undefined]).filter
ResetFilterFor(x) == BatchMutateCall("reset", [preservedKeys |-> x]).filter

\* A non-empty set of ids, as a caller names it: a non-empty string or a
\* non-empty array.  (resetCache takes the empty string as no argument.)
NonEmptyIdSet(x) == x \in IdArgs \ {Str(<<>>), Arr(<<>>)}

\* reset selects a key exactly when byId does not match it, if the key
\* decodes; a key that does not decode is selected by reset and not matched
\* by byId.
Complementary(reset, byId) ==
  \A i \in DOMAIN KeyTable :
    LET k == KeyTable[i][1]
    IN IF KeyTable[i][2] # NoKey
         THEN reset[k] <=> ~byId[k]
         ELSE reset[k] /\ ~byId[k]

\* C37: for every non-empty id set S and every cache key k that decodes to a
\* structured key, the filter of resetCache(S) selects k exactly when the
\* filter of mutateById(S) does not match k; a key that does not decode is
\* selected by the former and not matched by the latter.
C37_ResetComplementsById ==
  /\ (BatchCalled("reset") /\ NonEmptyIdSet(args[BatchCall].preservedKeys))
       => Complementary(TheCall.filter,
                        ByIdFilterFor(args[BatchCall].preservedKeys))
  /\ (BatchCalled("byId") /\ NonEmptyIdSet(args[BatchCall].ids))
       => Complementary(ResetFilterFor(args[BatchCall].ids), TheCall.filter)

\* C37 witness: resetCache(["a", "b"]) selects just the keys mutateById(["a",
\* "b"]) does not match: the key with the empty id, a decoded key, among them,
\* and the keys that do not decode.
C37_Witness ==
  /\ BatchCalled("reset")
  /\ args[BatchCall].preservedKeys = Arr(<<Str(<<"a">>), Str(<<"b">>)>>)
  /\ Accepted = {5, 6, 10, 11, 12}
  /\ {i \in DOMAIN KeyTable :
        ByIdFilterFor(args[BatchCall].preservedKeys)[KeyTable[i][1]]}
       = {1, 2, 3, 4, 7, 8, 9}


-----------------------------------------------------------------------------
\* executeMutation, the shared helper, on its own.  Call t is one call of
\* executeMutation(mutationFn, options): args[t] holds options.shouldRollback
\* and options.originalData, held[t] the value kept across an await (the
\* result or the caught error), log[t] the trace, `error` what onError was
\* last handed.  onError is a callback that returns normally.

OnError(e) == [ev |-> "onError", value |-> e]

\* The options a caller passes: shouldRollback, and originalData left out
\* or a list.
ExecOptions ==
  {[shouldRollback |-> b, originalData |-> d] :
     b \in BOOLEAN, d \in InitialCacheValues}

ExecInit ==
  /\ operation = "execute"
  /\ optimisticUpdate = FALSE
  /\ rollbackOption = "unset"
  /\ stableKey = Key1
  /\ isMountedRef = TRUE
  /\ isMutating = FALSE
  /\ error = Null
  /\ cache \in [CacheKeys -> InitialCacheValues]
  /\ pc = [t \in Calls |-> "idle"]
  /\ args = [t \in Calls |-> Undefined]
  /\ originalData = [t \in Calls |-> Undefined]
  /\ pending = [t \in Calls |-> TRUE]
  /\ held = [t \in Calls |-> Undefined]
  /\ result = [t \in Calls |-> Unsettled]
  /\ log = [t \in Calls |-> <<>>]
  /\ before = [t \in Calls |-> Undefined]
  /\ touched = [t \in Calls |-> FALSE]
  /\ alone = [t \in Calls |-> FALSE]
  /\ lastFailed = 0
  /\ started = 0
  /\ cacheFailures = 0

\* `options.onError(mutationError); throw mutationError;`
ExecThrow(t, err, sofar) ==
  /\ error' = err
  /\ pc' = [pc EXCEPT ![t] = "rejected"]
  /\ result' = [result EXCEPT ![t] = Rejected(err)]
  /\ log' = [log EXCEPT ![t] = Append(sofar, OnError(err))]
  /\ UNCHANGED <<cache, pending, held, touched, cacheFailures>>

\* `catch (err) { if (options.shouldRollback && options.originalData !==
\* undefined) await rollbackOptimisticUpdate(...); ... }`
ExecCatch(t, err, sofar) ==
  IF args[t].shouldRollback /\ args[t].originalData # Undefined
    THEN \E ok \in BOOLEAN :
           /\ Issue(t, rollbackOptimisticUpdate(stableKey, args[t].originalData),
                    ok, "awaitRollback", err, sofar)
           /\ UNCHANGED <<result, error>>
    ELSE ExecThrow(t, err, sofar)

\* executeMutation is called: mutationFn is invoked and awaited.
ExecuteMutation(t, o) ==
  /\ pc[t] = "idle"
  /\ t = started + 1
  /\ o \in ExecOptions
  /\ started' = t
  /\ args' = [args EXCEPT ![t] = o]
  /\ pc' = [pc EXCEPT ![t] = "awaitRemote"]
  /\ log' = [log EXCEPT ![t] = <<RemoteCall(Undefined)>>]
  /\ UNCHANGED <<config, isMountedRef, isMutating, error, cache, originalData,
                 pending, held, result, before, touched, alone, lastFailed,
                 cacheFailures>>

\* mutationFn resolved with r: `await swrMutate(options.mutate,
\* options.stableKey)` is issued.
ExecResolves(t, r) ==
  /\ operation = "execute"
  /\ pc[t] = "awaitRemote"
  /\ r \in RemoteResults
  /\ \E ok \in BOOLEAN :
       Issue(t, swrMutate(stableKey, Undefined, Undefined), ok,
             "awaitRevalidate", r, Append(log[t], RemoteSettled("resolved", r)))
  /\ UNCHANGED <<config, isMountedRef, isMutating, error, args, originalData,
                 result, before, alone, lastFailed, started>>

\* mutationFn rejected with c.
ExecRejects(t, c) ==
  /\ operation = "execute"
  /\ pc[t] = "awaitRemote"
  /\ c \in RemoteCauses
  /\ ExecCatch(t, c, Append(log[t], RemoteSettled("rejected", c)))
  /\ UNCHANGED <<config, isMountedRef, isMutating, args, originalData, before,
                 alone, lastFailed, started>>

\* The revalidation settled: `return result`, or the catch block.
ExecRevalidateSettled(t) ==
  /\ operation = "execute"
  /\ pc[t] = "awaitRevalidate"
  /\ IF pending[t]
       THEN /\ pc' = [pc EXCEPT ![t] = "resolved"]
            /\ result' = [result EXCEPT ![t] = Resolved(held[t])]
            /\ log' = [log EXCEPT ![t] = Append(@, MutateSettled(TRUE))]
            /\ UNCHANGED <<error, cache, pending, held, touched, cacheFailures>>
       ELSE ExecCatch(t, CacheFailure, Append(log[t], MutateSettled(FALSE)))
  /\ UNCHANGED <<config, isMountedRef, isMutating, args, originalData, before,
                 alone, lastFailed, started>>

\* The rollback write settled; its await stands inside the catch block, so
\* a rejection leaves the function with the rest of the block skipped.
ExecRollbackSettled(t) ==
  /\ operation = "execute"
  /\ pc[t] = "awaitRollback"
  /\ IF pending[t]
       THEN ExecThrow(t, held[t], Append(log[t], MutateSettled(TRUE)))
       ELSE /\ pc' = [pc EXCEPT ![t] = "rejected"]
            /\ result' = [result EXCEPT ![t] = Rejected(CacheFailure)]
            /\ log' = [log EXCEPT ![t] = Append(@, MutateSettled(FALSE))]
            /\ UNCHANGED <<error, cache, pending, held, touched, cacheFailures>>
  /\ UNCHANGED <<config, isMountedRef, isMutating, args, originalData, before,
                 alone, lastFailed, started>>

ExecNext ==
  \/ \E t \in Calls, o \in ExecOptions : ExecuteMutation(t, o)
  \/ \E t \in Calls : \E r \in RemoteResults : ExecResolves(t, r)
  \/ \E t \in Calls : \E c \in RemoteCauses : ExecRejects(t, c)
  \/ \E t \in Calls : ExecRevalidateSettled(t)
  \/ \E t \in Calls : ExecRollbackSettled(t)

ExecSpec == ExecInit /\ [][ExecNext]_vars

\* The onError calls call t made, in order.
OnErrorCalls(t) == SelectSeq(log[t], LAMBDA e : e.ev = "onError")

\* C39 (as stated): whenever executeMutation has rejected, onError was called
\* exactly once before, with the very error it rejected with; when the
\* mutation function and the revalidation both succeeded, onError was never
\* called and the mutation function's result is returned.
C39_OnErrorBeforeEveryRejection ==
  \A t \in Calls :
    /\ pc[t] = "rejected"
         => OnErrorCalls(t) = <<OnError(result[t].value)>>
    /\ \A r \in RemoteResults :
         (/\ RemoteResolvedWith(t, r)
          /\ NoCacheCallFailed(t)
          /\ pc[t] \in {"resolved", "rejected"})
         => /\ OnErrorCalls(t) = <<>>
            /\ result[t] = Resolved(r)

====
